---- MODULE Spec2Model ----
(***************************************************************************)
(* State-machine model of makai_vcd_reader's loaders (src/src/utils.rs):   *)
(* load_single_threaded and the load_multi_threaded pipeline               *)
(*   orchestrator (lexer loop) -> parser worker -> dispatcher -> shards    *)
(* over crossbeam bounded channels wrapped in SenderQueued/ReceiverQueued. *)
(***************************************************************************)
EXTENDS Integers, Sequences, FiniteSets, TLC

\* ------------------------------------------------------------------ bounds
\* Longest body (lexer tokens after $enddefinitions) of an input file.
MaxLen == 3
\* load_multi_threaded's waveform_threads argument (the tests pass 4).
waveform_threads == 2
\* utils.rs:156-157 set channel_limit = 1024 and queue_limit = 4096; the
\* model runs the same code with small limits so that full batches and full
\* channels happen on short inputs.
channel_limit == 1
queue_limit == 2
\* Byte lengths of the input's pieces: the header, a value-change or
\* timestamp line, a $comment block.
HeaderLen == 20
ValueLen == 3
CommentLen == 700

\* utils.rs:143 and utils.rs:249: the progress granularity.
ProgressSteps == 200

Shards == 1..waveform_threads

\* ------------------------------------------------------------------ input
\* A body token as the lexer yields it.  kind:
\*   "ts"     #<digits>                      -> Token::Timestamp
\*   "vec"    scalar or b... value change    -> Token::VectorValue
\*   "real"   r... value change              -> Token::RealValue
\*   "skip"   $comment/$dump*/$end           -> ignored by parse_waveform
\*   "badtok" a header block in the body     -> ParserError::UnexpectedToken
\*   "tokerr" e.g. a timestamp over u64      -> TokenizerError
\* id is the idcode of a change; bad marks an entry the storage rejects
\* (insert_timestamp / update_vector / update_real returns a WaveformError).
\* val is the payload; inputs carry pairwise distinct payloads (the token's
\* place in the body) so that the order of entries is observable.
TokenShapes ==
    { [kind |-> "ts", id |-> 0, bad |-> FALSE],
      [kind |-> "ts", id |-> 0, bad |-> TRUE],
      [kind |-> "vec", id |-> 0, bad |-> FALSE],
      [kind |-> "vec", id |-> 1, bad |-> FALSE],
      [kind |-> "vec", id |-> 1, bad |-> TRUE],
      [kind |-> "real", id |-> 2, bad |-> FALSE],
      [kind |-> "skip", id |-> 0, bad |-> FALSE],
      [kind |-> "badtok", id |-> 0, bad |-> FALSE],
      [kind |-> "tokerr", id |-> 0, bad |-> FALSE] }

WellFormedShapes ==
    { s \in TokenShapes : s.kind \in {"ts", "vec", "real", "skip"} /\ ~s.bad }

MkToken(shape, k) ==
    [kind |-> shape.kind, id |-> shape.id, bad |-> shape.bad, val |-> k]

\* The bodies of at most MaxLen tokens in which at most one token is one that
\* a stage rejects (a token parse_waveform fails on, an entry the storage
\* rejects).
SingleFault(f) ==
    \A j, k \in DOMAIN f :
        (f[j] \notin WellFormedShapes /\ f[k] \notin WellFormedShapes) => j = k

BodiesOver(shapes) ==
    UNION { { [k \in 1..n |-> MkToken(f[k], k)] :
                f \in { g \in [1..n -> shapes] : SingleFault(g) } }
            : n \in 0..MaxLen }

\* An input file: header is "ok" (parse_header succeeds) or "bad" (it
\* fails); body is the token sequence after $enddefinitions; lex_fail says
\* the bytes after the last body token are an unclassified run (the lexer
\* returns Err there instead of end of input).
InputsOver(shapes, headers, fails) ==
    { [header |-> h, body |-> b, lex_fail |-> lf] :
        h \in headers, b \in BodiesOver(shapes), lf \in fails }

Inputs == InputsOver(TokenShapes, {"ok", "bad"}, BOOLEAN)

WellFormedInputs == InputsOver(WellFormedShapes, {"ok"}, {FALSE})

WellFormed(input) == input \in WellFormedInputs

TokenLen(tok) == IF tok.kind = "skip" THEN CommentLen ELSE ValueLen

RECURSIVE BodyLen(_, _)
BodyLen(body, n) ==
    IF n = 0 THEN 0 ELSE BodyLen(body, n - 1) + TokenLen(body[n])

\* bytes.as_bytes().len()
FileSize(input) ==
    HeaderLen + BodyLen(input.body, Len(input.body))
        + (IF input.lex_fail THEN 1 ELSE 0)

\* lexer.get_position().get_index() once the lexer has yielded n body
\* tokens: the start of the last span it matched.  After parse_header that
\* span is the $enddefinitions block; after a failed or finished match it is
\* the tail of the input.
TokenIndex(input, n) ==
    IF n = 0 THEN 0 ELSE HeaderLen + BodyLen(input.body, n - 1)

EndIndex(input) == HeaderLen + BodyLen(input.body, Len(input.body))

\* Lexer::next_token after n body tokens: Some(token), None or Err(pos).
LexerNext(input, n) ==
    IF n < Len(input.body) THEN <<"Some", input.body[n + 1]>>
    ELSE IF input.lex_fail THEN <<"Err", EndIndex(input)>>
    ELSE <<"None">>

\* ------------------------------------------------------ parser, tokenizer
\* VcdParser::parse_header on the header's tokens.
ParseHeader(input) ==
    IF input.header = "ok" THEN <<"Ok", "header">>
    ELSE <<"Err", <<"Parser", "header">>>>

\* Tokenizer::next followed by parse_waveform's match on the token:
\*   <<"Entry", e>>  break with a VcdEntry
\*   <<"Ignore">>    the ignored tokens: the loop pulls the next token
\*   <<"Err", e>>    ParserError::Tokenizer / ParserError::UnexpectedToken
ParseToken(tok) ==
    CASE tok.kind = "tokerr" -> <<"Err", <<"Tokenizer", tok.val>>>>
      [] tok.kind = "badtok" -> <<"Err", <<"UnexpectedToken", tok.val>>>>
      [] tok.kind = "skip" -> <<"Ignore">>
      [] OTHER -> <<"Entry", tok>>

\* ---------------------------------------------------------------- storage
\* The storage call an entry maps to (utils.rs:138-140, 193-197).
StorageOp(e) ==
    CASE e.kind = "ts" -> <<"insert_timestamp", e.val>>
      [] e.kind = "vec" -> <<"update_vector", e.id, e.val>>
      [] OTHER -> <<"update_real", e.id, e.val>>

\* Its result: the waveform with the call applied, or the WaveformError.
StorageApply(wave, e) ==
    IF e.bad THEN <<"Err", <<"WaveformError", e.val>>>>
    ELSE <<"Ok", Append(wave, StorageOp(e))>>

\* ------------------------------------------------- SenderQueued, channels
\* A crossbeam bounded channel: buf holds the batches in flight, tx and rx
\* say whether the sender and the receiver are still alive.
NewChannel == [buf |-> <<>>, tx |-> TRUE, rx |-> TRUE]

\* A push at the front of the pending batch.
QueuePushFront(queue, value) == <<value>> \o queue

\* SenderQueued::send pushes onto the pending batch ...
QueuePush(queue, value) == Append(queue, value)

\* A flush one push late: the batch is sent once it exceeds its capacity.
NeedsFlushLate(queue) == Len(queue) > queue_limit

\* ... and SenderQueued::flush sends it once it has reached its capacity.
NeedsFlush(queue) == Len(queue) >= queue_limit

\* Sender::send blocks while the channel is full and its receiver alive.
CanSend(ch) == Len(ch.buf) < channel_limit \/ ~ch.rx

\* Sender::send fails once the receiver is gone (the callers unwrap it).
SendFails(ch) == ~ch.rx

ChannelSend(ch, batch) == [ch EXCEPT !.buf = Append(@, batch)]

\* A finish that sends the pending batch and no empty batch after it.
FinishNoTerminator(queue) == <<queue>>

\* A finish without the test of the pending batch: an empty batch behind it
\* in every case.
FinishAlwaysTwo(queue) == <<queue, <<>>>>

\* SenderQueued::finish: the pending batch when it is not empty, then the
\* empty batch that tells the receiver to stop.
FinishBatches(queue) ==
    IF queue # <<>> THEN <<queue, <<>>>> ELSE <<queue>>

\* ReceiverQueued: queue is the batch being consumed, done is set by the
\* empty batch.
NewReceiver == [queue |-> <<>>, done |-> FALSE]

\* Receiver::recv blocks while the channel is empty and its sender alive.
CanRecv(rx, ch) ==
    rx.done \/ rx.queue # <<>> \/ ch.buf # <<>> \/ ~ch.tx

\* A pop at the back of the batch being consumed.
PopBack(queue) == <<queue[Len(queue)], SubSeq(queue, 1, Len(queue) - 1)>>

\* VecDeque::pop_front: <<the value, the rest, unit_vars>>.
PopFront(queue) == <<Head(queue), Tail(queue)>>

\* A receiver that does not note the empty batch.
SetDoneNot(rx) == rx

\* utils.rs:75-76: the empty batch sets done.
SetDone(rx) == [rx EXCEPT !.done = TRUE]

\* ReceiverQueued::recv: <<tag, value, receiver', channel buffer'>> with tag
\* "Some", "None" or "Err" (RecvError: channel empty and sender gone).
Recv(rx, ch) ==
    IF rx.done THEN <<"None", <<>>, rx, ch.buf>>
    ELSE IF rx.queue # <<>>
        THEN LET p == PopFront(rx.queue) IN
             <<"Some", p[1], [rx EXCEPT !.queue = p[2]], ch.buf>>
    ELSE IF ch.buf # <<>>
        THEN LET batch == Head(ch.buf) IN
             IF batch = <<>>
             THEN <<"None", <<>>, SetDone(rx), Tail(ch.buf)>>
             ELSE LET p == PopFront(batch) IN
                  <<"Some", p[1], [rx EXCEPT !.queue = p[2]], Tail(ch.buf)>>
    ELSE <<"Err", <<>>, rx, ch.buf>>

\* Routing that ignores the idcode.
ShardOfFirst(id) == 1

\* The dispatcher's routing of a Vector or Real entry (utils.rs:224, 229);
\* shards are numbered from 1 here.
ShardOf(id) == (id % waveform_threads) + 1

\* A Timestamp sent to the first shard only.
BroadcastToFirst == {1}

\* The shards a Timestamp is sent to (utils.rs:219).
BroadcastTo == Shards

\* VcdParser::into_header
IntoHeader(p) == p.header

\* Waveform::unshard
Unshard(shards) == shards

\* A strict test: a report only when the product exceeds the file size.
ProgressDueStrict(index, last, size) == (index - last) * ProgressSteps > size

\* utils.rs:143 and utils.rs:249: (index - last_index) * 200 / file_size > 0
ProgressDue(index, last, size) == ((index - last) * ProgressSteps) \div size > 0

\* ------------------------------------------------------ load_single_threaded
\* VcdParser::parse_waveform fed by the closure of utils.rs:133, the lexer
\* having yielded n body tokens: <<tag, payload, tokens yielded>>.  A lexer
\* error reaches the parser as TokenizerError::LexerError (errors.rs:16-20).
RECURSIVE ParseWaveform(_, _)
ParseWaveform(input, n) ==
    LET l == LexerNext(input, n) IN
    CASE l[1] = "None" -> <<"None", <<>>, n>>
      [] l[1] = "Err" -> <<"Err", <<"Tokenizer", <<"LexerError", l[2]>>>>, n>>
      [] OTHER ->
           LET t == ParseToken(l[2]) IN
           CASE t[1] = "Err" -> <<"Err", t[2], n + 1>>
             [] t[1] = "Ignore" -> ParseWaveform(input, n + 1)
             [] OTHER -> <<"Entry", t[2], n + 1>>

\* load_single_threaded's locals: pos counts the body tokens the lexer has
\* yielded, reports lists the calls of the status callback.
SingleStart ==
    [pc |-> "start", result |-> <<"None">>, parser |-> <<"None">>, pos |-> 0,
     last_index |-> 0, reports |-> <<>>, waveform |-> <<>>]

\* A load that initializes the waveform before it looks at what
\* parse_header returned.
SingleHeaderEager(input, s) ==
    LET r == ParseHeader(input) IN
    IF r[1] = "Err"
    THEN [s EXCEPT !.result = <<"Err", r[2]>>, !.pc = "done",
                   !.waveform = <<<<"initialize_vector", 0, 1>>>>]
    ELSE [s EXCEPT !.parser = [header |-> r[2]],
                   !.last_index = TokenIndex(input, 0),
                   !.reports = Append(@, <<TokenIndex(input, 0), FileSize(input)>>),
                   !.pc = "loop"]

\* utils.rs:122-130
SingleHeaderOf(input, s) ==
    LET r == ParseHeader(input) IN
    IF r[1] = "Err"
    THEN [s EXCEPT !.result = <<"Err", r[2]>>, !.pc = "done"]
    ELSE [s EXCEPT !.parser = [header |-> r[2]],
                   !.last_index = TokenIndex(input, 0),
                   !.reports = Append(@, <<TokenIndex(input, 0), FileSize(input)>>),
                   !.pc = "loop"]

\* utils.rs:131-148: one turn of the loop, or the return after it.
SingleLoopOf(input, s) ==
    LET r == ParseWaveform(input, s.pos)
        a == StorageApply(s.waveform, r[2])
        index == TokenIndex(input, r[3])
    IN CASE r[1] = "None" ->
              [s EXCEPT !.result = <<"Ok", IntoHeader(s.parser), s.waveform>>,
                        !.pc = "done"]
         [] r[1] = "Err" ->
              [s EXCEPT !.result = <<"Err", <<"Parser", r[2]>>>>, !.pc = "done"]
         [] r[1] = "Entry" /\ a[1] = "Err" ->
              [s EXCEPT !.result = <<"Err", <<"Waveform", a[2]>>>>,
                        !.pc = "done"]
         [] OTHER ->
              IF ProgressDue(index, s.last_index, FileSize(input))
              THEN [s EXCEPT !.waveform = a[2], !.pos = r[3],
                             !.last_index = index,
                             !.reports = Append(@, <<index, FileSize(input)>>)]
              ELSE [s EXCEPT !.waveform = a[2], !.pos = r[3]]

\* ------------------------------- load_single_threaded's progress test alone
\* The sizes of the files the test is run on: around ProgressSteps times the
\* bytes one entry can take.
FileSizes == (ProgressSteps - ValueLen)..(ProgressSteps * ValueLen + ValueLen)

\* utils.rs:129-130 and the loop's locals: entries counts the entries
\* applied; delta, before and called describe the last turn of the loop
\* (index - last_index and last_index as the test saw them, and whether the
\* status callback was invoked).
ProgressStart(size) ==
    [file_size |-> size, index |-> 0, last_index |-> 0, entries |-> 0,
     reports |-> <<<<0, size>>>>, delta |-> 0, before |-> 0, called |-> FALSE]

\* utils.rs:142-146 after an entry that moved the lexer d bytes on.
ProgressOf(p, d) ==
    LET index == p.index + d
        q == [p EXCEPT !.index = index, !.entries = @ + 1,
                       !.delta = index - p.last_index,
                       !.before = p.last_index]
    IN IF ProgressDue(index, p.last_index, p.file_size)
       THEN [q EXCEPT !.last_index = index,
                      !.reports = Append(@, <<index, p.file_size>>),
                      !.called = TRUE]
       ELSE [q EXCEPT !.called = FALSE]

\* ------------------------- a SenderQueued and its ReceiverQueued on their own
\* The values passed to SenderQueued::send.
QueuedValues == 1..MaxLen

\* SenderQueued::new and ReceiverQueued::new over one bounded channel.  tx_pc
\* and rx_pc are the places of the producer and the consumer, fin the batches
\* finish has still to send; sent, placed and got record the values passed to
\* send, the batches placed on the channel and the values recv returned, and
\* after what recv returned to the calls made after its first None.
QueuedStart ==
    [queue |-> <<>>, ch |-> NewChannel, rx |-> NewReceiver,
     tx_pc |-> "send", fin |-> <<>>, rx_pc |-> "recv",
     sent |-> <<>>, placed |-> <<>>, got |-> <<>>, after |-> <<>>]

\* utils.rs:29-42: SenderQueued::send(value).
QueuedSendOf(q, value) ==
    LET queue == QueuePush(q.queue, value) IN
    IF NeedsFlush(queue)
    THEN [q EXCEPT !.queue = <<>>, !.ch = ChannelSend(@, queue),
                   !.placed = Append(@, queue), !.sent = Append(@, value)]
    ELSE [q EXCEPT !.queue = queue, !.sent = Append(@, value)]

\* utils.rs:44-51: one channel send of SenderQueued::finish, fin being the
\* batches it has still to send; the sender is dropped after the last one.
QueuedFinishOf(q, fin) ==
    LET r == [q EXCEPT !.queue = <<>>, !.ch = ChannelSend(@, Head(fin)),
                       !.placed = Append(@, Head(fin))]
    IN IF Len(fin) > 1
       THEN [r EXCEPT !.fin = Tail(fin), !.tx_pc = "finish"]
       ELSE [r EXCEPT !.fin = <<>>, !.tx_pc = "done", !.ch.tx = FALSE]

\* utils.rs:69-81: ReceiverQueued::recv, called until it returns None and
\* again after that; a RecvError ends the consumer.
QueuedRecvOf(q) ==
    LET r == Recv(q.rx, q.ch)
        read == [q EXCEPT !.rx = r[3], !.ch.buf = r[4]]
    IN IF q.rx_pc = "done" THEN [read EXCEPT !.after = Append(@, r[1])]
       ELSE IF r[1] = "Some" THEN [read EXCEPT !.got = Append(@, r[2])]
       ELSE IF r[1] = "None" THEN [read EXCEPT !.rx_pc = "done"]
       ELSE [read EXCEPT !.rx_pc = "failed"]

\* ------------------------------------------------ VcdReader::parse_header
\* The longest token stream fed to parse_header.
MaxHeaderTokens == 6
\* usize is 64 bits wide; the model computes with WordBits-bit words, wide
\* enough for every width and bit index of its tokens.
WordBits == 8

UsizeModulus == 2 ^ WordBits

\* Wrapping usize arithmetic (a release build).
WrapUsize(x) == x % UsizeModulus

\* parser.rs:11-26
ConvertTimescale(timescale, offset) ==
    LET base == CASE timescale = "fs" -> 15
                  [] timescale = "ps" -> 12
                  [] timescale = "ns" -> 9
                  [] timescale = "us" -> 6
                  [] timescale = "ms" -> 3
                  [] OTHER -> 0
        off == CASE offset = "1" -> 0
                 [] offset = "10" -> -1
                 [] OTHER -> -2
    IN base + off

\* What the token generator yields in the header, less the position: kind is
\* the Token variant, "None" for Ok(None) and "TokenizerError" for Err(err).
\* net, width, idcode and desc are the fields of a Var, timescale and offset
\* those of a Timescale.
HeaderShape(kind) ==
    [kind |-> kind, net |-> "", width |-> 0, idcode |-> 0,
     desc |-> <<"Unspecified">>, timescale |-> "ns", offset |-> "1"]

VarShape(net, width, idcode, desc) ==
    [kind |-> "Var", net |-> net, width |-> width, idcode |-> idcode,
     desc |-> desc, timescale |-> "", offset |-> ""]

\* $var declarations: a scalar and a two-bit vector of one idcode, a real
\* and a vector of another, one whose bit select has msb < lsb, one whose
\* declared width differs from its reference's, a real with a reference
\* that carries a width.
VarShapes ==
    { VarShape("wire", 1, 0, <<"Unspecified">>),
      VarShape("wire", 2, 0, <<"VectorSelect", 1, 0>>),
      VarShape("real", 64, 1, <<"Unspecified">>),
      VarShape("reg", 2, 1, <<"Vector", 2>>),
      VarShape("wire", 2, 0, <<"VectorSelect", 0, 1>>),
      VarShape("wire", 1, 0, <<"Vector", 2>>),
      VarShape("real", 64, 1, <<"Vector", 64>>) }

HeaderKinds ==
    {"Comment", "Date", "Version", "Timescale", "Scope", "UpScope",
     "EndDefinitions", "Timestamp", "None", "TokenizerError"}

HeaderShapes == { HeaderShape(kind) : kind \in HeaderKinds } \cup VarShapes

\* The token at place pos of the stream; pos stands for its LexerPosition
\* and for the bytes it names (a scope's or a variable's name, the text of
\* a $date or $version).
HeaderToken(shape, pos) ==
    [kind |-> shape.kind, net |-> shape.net, width |-> shape.width,
     idcode |-> shape.idcode, desc |-> shape.desc,
     timescale |-> shape.timescale, offset |-> shape.offset, pos |-> pos]

\* parser.rs:88-127: VcdVariable::new, as the set of its outcomes.  msb - lsb
\* overflows when msb < lsb: a build with overflow checks panics there, one
\* without them wraps.
VariableNew(tok) ==
    LET Made(width) ==
            <<"Ok", [name |-> tok.pos, description |-> tok.desc,
                     width |-> width, net_type |-> tok.net,
                     idcode |-> tok.idcode]>>
        Mismatched == <<"Err", "MismatchedWidth", tok.pos>>
    IN CASE tok.net \in {"real", "realtime"} ->
              IF tok.desc[1] = "Unspecified" THEN {Made(<<"Real">>)}
              ELSE {Mismatched}
         [] tok.desc[1] = "Unspecified" -> {Made(<<"Vector", tok.width>>)}
         [] tok.desc[1] = "Vector" ->
              IF tok.desc[2] # tok.width THEN {Mismatched}
              ELSE {Made(<<"Vector", tok.width>>)}
         [] OTHER ->
              LET width == WrapUsize(tok.desc[2] - tok.desc[3] + 1)
                  wrapped == IF width # tok.width THEN Mismatched
                             ELSE Made(<<"Vector", width>>)
              IN IF tok.desc[2] < tok.desc[3] THEN {<<"Panic">>, wrapped}
                 ELSE {wrapped}

\* parser.rs:161-168
ScopeNew(tok) ==
    [name |-> tok.pos, scope_type |-> "module", scopes |-> <<>>,
     variables |-> <<>>]

\* A walk that takes the first child at each level.
LastIndexFirst(scopes) == 1

\* Vec::last_mut: the place of the last element.
LastIndex(scopes) == Len(scopes)

\* parser.rs:398-401 and 432-436: whether `depth` turns of
\* `scopes = &mut scopes.last_mut().unwrap().scopes` pass without a panic.
RECURSIVE CanWalk(_, _)
CanWalk(scopes, depth) ==
    \/ depth = 0
    \/ /\ scopes # <<>>
       /\ CanWalk(scopes[LastIndex(scopes)].scopes, depth - 1)

\* A push among the roots, whatever the depth.
PushScopeAtRoot(scopes, depth, scope) == Append(scopes, scope)

\* parser.rs:398-402: the walk of `depth` turns, then scopes.push(scope).
RECURSIVE PushScope(_, _, _)
PushScope(scopes, depth, scope) ==
    IF depth = 0 THEN Append(scopes, scope)
    ELSE [scopes EXCEPT ![LastIndex(scopes)].scopes =
                            PushScope(@, depth - 1, scope)]

\* parser.rs:432-436: the walk of `depth` turns, then
\* scopes.last_mut().unwrap().variables.push(variable).  The code walks
\* scope_depth - 1 turns, which has no value at scope_depth 0.
RECURSIVE PushVariable(_, _, _)
PushVariable(scopes, depth, variable) ==
    IF depth = 0
    THEN [scopes EXCEPT ![LastIndex(scopes)].variables = Append(@, variable)]
    ELSE [scopes EXCEPT ![LastIndex(scopes)].scopes =
                            PushVariable(@, depth - 1, variable)]

NoIdcodes == [k \in {} |-> <<"Real">>]

\* A comparison of widths that finds no conflict.
WidthConflictNever(idcodes, id, width) == FALSE

\* parser.rs:423-431: insert returns Some(old_width) and old_width differs.
WidthConflict(idcodes, id, width) ==
    id \in DOMAIN idcodes /\ idcodes[id] # width

\* An $upscope that is taken at any depth.
UpscopeAlways(depth) == FALSE

\* parser.rs:439
UpscopeUnexpected(depth) == depth = 0

\* An $enddefinitions that is taken at any depth.
EndDefinitionsAlways(depth) == FALSE

\* parser.rs:445
EndDefinitionsUnexpected(depth) == depth # 0

\* A $var that is taken at any depth.
VariableAlways(depth) == FALSE

\* parser.rs:411
VariableUnexpected(depth) == depth = 0

\* HashMap::insert
IdcodesInsert(idcodes, id, width) ==
    [k \in DOMAIN idcodes \cup {id} |-> IF k = id THEN width ELSE idcodes[k]]

\* VcdReader::new, with what the model records of a run of parse_header:
\* result is <<"None">> while the loop runs, fed counts the tokens pulled,
\* accepted lists the tokens whose arm ended without a return, last is the
\* token pulled last and before the header and depth it met.
HeaderStart ==
    LET header == [version |-> <<"None">>, date |-> <<"None">>,
                   timescale |-> <<"None">>, idcodes |-> NoIdcodes,
                   scopes |-> <<>>]
    IN [header |-> header, scope_depth |-> 0, result |-> <<"None">>,
        fed |-> 0, accepted |-> <<>>,
        last |-> HeaderToken(HeaderShape("None"), 0),
        before |-> <<header, 0>>]

\* parser.rs:370-452: one turn of parse_header's loop on what the token
\* generator yields, as the set of the states it can leave.
HeaderTurn(h, tok) ==
    LET g == [h EXCEPT !.fed = @ + 1, !.last = tok,
                       !.before = <<h.header, h.scope_depth>>]
        Accept(x) == [x EXCEPT !.accepted = Append(@, tok)]
        Return(x, r) == [x EXCEPT !.result = r]
    IN CASE tok.kind = "None" ->
              {Return(g, <<"Err", "UnexpectedTermination", 0>>)}
         [] tok.kind = "TokenizerError" ->
              {Return(g, <<"Err", "Tokenizer", tok.pos>>)}
         [] tok.kind = "Comment" -> {Accept(g)}
         [] tok.kind = "Date" ->
              {Accept([g EXCEPT !.header.date = <<"Some", tok.pos>>])}
         [] tok.kind = "Version" ->
              {Accept([g EXCEPT !.header.version = <<"Some", tok.pos>>])}
         [] tok.kind = "Timescale" ->
              {Accept([g EXCEPT !.header.timescale =
                                   <<"Some", ConvertTimescale(tok.timescale, tok.offset)>>])}
         [] tok.kind = "Scope" ->
              IF ~CanWalk(h.header.scopes, h.scope_depth)
              THEN {Return(g, <<"Panic">>)}
              ELSE {Accept([g EXCEPT
                      !.header.scopes =
                          PushScope(@, h.scope_depth, ScopeNew(tok)),
                      !.scope_depth = @ + 1])}
         [] tok.kind = "Var" ->
              IF VariableUnexpected(h.scope_depth)
              THEN {Return(g, <<"Err", "UnexpectedVariable", tok.pos>>)}
              ELSE { IF v[1] # "Ok" THEN Return(g, v)
                     ELSE LET inserted ==
                                  [g EXCEPT !.header.idcodes =
                                      IdcodesInsert(@, tok.idcode, v[2].width)]
                          IN IF WidthConflict(h.header.idcodes, tok.idcode,
                                              v[2].width)
                             THEN Return(inserted,
                                         <<"Err", "UnmatchedIdcode", tok.pos>>)
                             ELSE IF \/ h.scope_depth = 0
                                     \/ ~CanWalk(h.header.scopes, h.scope_depth)
                             THEN Return(inserted, <<"Panic">>)
                             ELSE Accept([inserted EXCEPT
                                    !.header.scopes =
                                        PushVariable(@, h.scope_depth - 1, v[2])])
                     : v \in VariableNew(tok) }
         [] tok.kind = "UpScope" ->
              IF UpscopeUnexpected(h.scope_depth)
              THEN {Return(g, <<"Err", "UnexpectedUpscope", tok.pos>>)}
              ELSE {Accept([g EXCEPT !.scope_depth = @ - 1])}
         [] tok.kind = "EndDefinitions" ->
              IF EndDefinitionsUnexpected(h.scope_depth)
              THEN {Return(g, <<"Err", "UnexpectedEndDefinitions", tok.pos>>)}
              ELSE {Return(g, <<"Ok">>)}
         [] OTHER -> {Return(g, <<"Err", "UnexpectedToken", tok.pos>>)}

\* ---------------------------------------------- VcdReader::parse_waveform
\* The Token variants parse_waveform turns into entries, those it passes
\* over, and the others.
ValueKinds == {"Timestamp", "VectorValue", "RealValue"}

PassedKinds == {"Comment", "DumpAll", "DumpOff", "DumpOn", "DumpVars", "End"}

DeclarationKinds ==
    {"Date", "Version", "Timescale", "Scope", "Var", "UpScope",
     "EndDefinitions"}

WaveformKinds == ValueKinds \cup PassedKinds \cup DeclarationKinds

\* The token of a kind at place pos of the stream: pos stands for its
\* LexerPosition, for the value it carries and for its idcode's id.
WaveformToken(kind, pos) ==
    [kind |-> kind, pos |-> pos, value |-> pos, idcode |-> [id |-> pos]]

\* The stream of the tokens of the given kinds.
WaveformStream(kinds) ==
    [i \in DOMAIN kinds |-> WaveformToken(kinds[i], i)]

\* A parse_waveform that passes over $date as well.
IsPassedOrDate(tok) == tok.kind \in PassedKinds \cup {"Date"}

\* A parse_waveform that does not pass over $end.
IsPassedButEnd(tok) == tok.kind \in PassedKinds \ {"End"}

\* parser.rs:470-475
IsPassed(tok) == tok.kind \in PassedKinds

\* parser.rs:466-468
EntryOf(tok) ==
    CASE tok.kind = "Timestamp" -> <<"Timestamp", tok.value>>
      [] tok.kind = "VectorValue" -> <<"Vector", tok.value, tok.idcode.id>>
      [] tok.kind = "RealValue" -> <<"Real", tok.value, tok.idcode.id>>

\* parser.rs:459-481: one call of parse_waveform on a generator that yields
\* the tokens of stream from place at on, then Ok(None) for ever when ending
\* is "None" and Err(err) otherwise.  The pair of what the call returns and
\* of the place the generator is left at.
RECURSIVE ParseWaveformCall(_, _, _)
ParseWaveformCall(stream, ending, at) ==
    IF at > Len(stream)
    THEN IF ending = "None" THEN <<<<"Ok", <<"None">>>>, at>>
         ELSE <<<<"Err", "Tokenizer", at>>, at>>
    ELSE LET tok == stream[at]
         IN CASE tok.kind \in ValueKinds ->
                   <<<<"Ok", <<"Some", EntryOf(tok)>>>>, at + 1>>
              [] IsPassed(tok) -> ParseWaveformCall(stream, ending, at + 1)
              [] OTHER -> <<<<"Err", "UnexpectedToken", tok>>, at + 1>>

\* A reader before its first call of parse_waveform: results lists what the
\* calls have returned.
WaveformStart(stream, ending) ==
    [stream |-> stream, ending |-> ending, at |-> 1, results |-> <<>>]

\* ------------------------------------------------------- tokenize_idcode
\* The longest identifier code.
MaxRun == 9

\* The longest run of whitespace written in a $timescale.
MaxSpace == 2

\* tokenizer.rs:52: (usize::BITS / 8), the bytes of a machine word.
usize_bytes == 8

\* lexer.rs:68: the printable bytes, 0x21 to 0x7E; the model's identifier
\* codes are made of the two ends of the range.
PrintableLow == 33

PrintableHigh == 126

\* The identifier codes: the runs of up to MaxRun printable bytes that hold
\* PrintableHigh at one place at most.
Runs ==
    UNION { { [i \in 1..n |-> IF i = k THEN PrintableHigh ELSE PrintableLow] :
                k \in 0..n } : n \in 1..MaxRun }

\* A usize as its bytes, the lowest first.
WordOf(n) == [i \in 1..usize_bytes |-> IF i = 1 THEN n ELSE 0]

\* word | (1 << (usize::BITS - 1))
WithTopBit(word) ==
    [word EXCEPT ![usize_bytes] = IF @ < 128 THEN @ + 128 ELSE @]

\* word & !(1 << (usize::BITS - 1))
WithoutTopBit(word) ==
    [word EXCEPT ![usize_bytes] = IF @ < 128 THEN @ ELSE @ - 128]

\* word & (1 << (usize::BITS - 1)) != 0
TopBit(word) == word[usize_bytes] >= 128

\* (word << 8) | byte
ShiftIn(word, byte) ==
    [i \in 1..usize_bytes |-> IF i = 1 THEN byte ELSE word[i - 1]]

\* word >> 8
ShiftOut(word) ==
    [i \in 1..usize_bytes |-> IF i = usize_bytes THEN 0 ELSE word[i + 1]]

\* ByteStorage::insert: the store is the sequence of the slices inserted,
\* the id of a slice its place, counted from 0.
BsInsert(bs, slice) == [bs |-> Append(bs, slice), id |-> Len(bs)]

\* ByteStorage::get_bytes
BsGet(bs, id) == bs[id + 1]

\* tokenizer.rs:58-62 packing from the first byte on.
RECURSIVE PackForward(_, _)
PackForward(bytes, i) ==
    IF i > Len(bytes) THEN WordOf(0)
    ELSE ShiftIn(PackForward(bytes, i + 1), bytes[Len(bytes) + 1 - i])

\* tokenizer.rs:58-62: the loop over (0..bytes.len()).rev(); Pack(bytes, i)
\* is id once the bytes from the last down to place i are in.
RECURSIVE Pack(_, _)
Pack(bytes, i) ==
    IF i > Len(bytes) THEN WordOf(0)
    ELSE ShiftIn(Pack(bytes, i + 1), bytes[i])

\* tokenizer.rs:51-65: the byte store and the id tokenize_idcode leaves.
TokenizeIdcode(bs, bytes) ==
    IF \/ Len(bytes) > usize_bytes
       \/ Len(bytes) = usize_bytes /\ bytes[usize_bytes] \div 128 = 0
    THEN LET put == BsInsert(bs, bytes)
         IN [bs |-> put.bs, id |-> WithTopBit(WordOf(put.id))]
    ELSE [bs |-> bs, id |-> Pack(bytes, 1)]

\* token.rs:36-46: the bytes written from an id that is packed.
RECURSIVE Unpack(_, _)
Unpack(word, turns) ==
    IF turns = 0 \/ word[1] = 0 THEN <<>>
    ELSE <<word[1]>> \o Unpack(ShiftOut(word), turns - 1)

\* token.rs:33-53: the bytes TokenIdCode::write_to writes.
IdcodeWriteTo(id, bs) ==
    IF ~TopBit(id) THEN Unpack(id, 8)
    ELSE BsGet(bs, WithoutTopBit(id)[1])

\* A load seen from the byte store: runs are the identifier codes of a $var
\* and of a value change, ids what tokenize_idcode made of them, header_bs
\* the store when parse_header returned, out what write_to writes.
IdcodeStart(a, b) ==
    [bs |-> <<>>, header_bs |-> <<>>, runs |-> <<a, b>>, ids |-> <<>>,
     out |-> <<>>, pc |-> "header"]

\* ---------------------------------------------------- tokenize_timestamp
\* u64 is 64 bits wide; the model computes timestamps with WordBits-bit
\* words, which spans of up to MaxLen digits overflow.
U64Modulus == 2 ^ WordBits

\* tokenizer.rs:46: b'0'
AsciiZero == 48

\* lexer.rs:66: the digits of a timestamp, ([0]|([1-9][0-9]*)), as bytes.
TimestampDigits ==
    UNION { { d \in [1..n -> AsciiZero..(AsciiZero + 9)] :
                n > 1 => d[1] # AsciiZero } : n \in 1..MaxLen }

\* The number a run of digits denotes.
RECURSIVE Denoted(_, _)
Denoted(digits, n) ==
    IF n = 0 THEN 0
    ELSE Denoted(digits, n - 1) * 10 + (digits[n] - AsciiZero)

\* tokenizer.rs:43-47: result after the first n bytes that follow '#', and
\* whether a `*= 10`, a `+=` or the u8 `b - b'0'` has overflowed on the way.
RECURSIVE TimestampLoop(_, _)
TimestampLoop(digits, n) ==
    IF n = 0 THEN [result |-> 0, overflow |-> FALSE]
    ELSE LET before == TimestampLoop(digits, n - 1)
             times == before.result * 10
             digit == (digits[n] - AsciiZero) % 256
             plus == (times % U64Modulus) + digit
         IN [result |-> plus % U64Modulus,
             overflow |-> \/ before.overflow
                          \/ times >= U64Modulus
                          \/ digits[n] < AsciiZero
                          \/ plus >= U64Modulus]

\* tokenizer.rs:42-49: what tokenize_timestamp can do on '#' and the digits:
\* an overflow panics in a build with overflow checks and wraps in one
\* without.
TokenizeTimestamp(digits) ==
    LET end == TimestampLoop(digits, Len(digits))
    IN IF end.overflow THEN {<<"Panic">>, <<"Ok", end.result>>}
       ELSE {<<"Ok", end.result>>}

\* lexer.rs:66: the spaces of [ ]* between '#' and the digits.
RECURSIVE SpacesOf(_)
SpacesOf(n) == IF n = 0 THEN <<>> ELSE <<32>> \o SpacesOf(n - 1)

\* A tokenizer before it is given a span.
TokenizerStart(kind, span) ==
    [kind |-> kind, span |-> span, result |-> <<"None">>]

\* ----------------------------------------------------- tokenize_variable
\* The body of a $var as its words: net is the net type's word, width what
\* parse::<usize> makes of the width's word (<<"Ok", n>> or <<"Err">>),
\* idcode the identifier code's bytes, suffix the reference's bracket
\* suffix: <<"Unspecified">> without one, <<"Vector", n>> for [n],
\* <<"VectorSelect", msb, lsb>> for [msb:lsb], the numbers again as
\* parse::<usize> gives them, <<"Malformed">> for a second word that is not
\* in brackets; name is the bytes the reference's name is stored as.
VarNets == {"wire", "reg", "real", "realtime", "bogus"}

\* token.rs:94-113: the words TokenVariableNetType::from_byte_str knows,
\* among the model's.
KnownNets == VarNets \ {"bogus"}

VarWidths == {1, 2, 64, UsizeModulus - 1}

VarIndexes == {0, 1, 2, 63}

Parsed(numbers) == { <<"Ok", n>> : n \in numbers } \cup {<<"Err">>}

VarSuffixes ==
    {<<"Unspecified">>}
    \cup { <<"Vector", n>> : n \in Parsed(VarWidths) }
    \cup { <<"VectorSelect", msb, lsb>> :
             msb \in Parsed(VarIndexes), lsb \in Parsed(VarIndexes) }

VarBodies ==
    [net : VarNets, width : Parsed(VarWidths), idcode : {<<PrintableLow>>},
     name : {<<PrintableHigh>>}, suffix : VarSuffixes]

\* A test of the net type that knows real only.
IsRealNetOnly(net) == net = "real"

\* tokenizer.rs:216
IsRealNet(net) == net \in {"real", "realtime"}

\* token.rs:131-137: what get_width can do; msb - lsb + 1 overflows when
\* msb < lsb, which panics in a build with overflow checks and wraps in one
\* without.
GetWidth(desc) ==
    CASE desc[1] = "Unspecified" -> {<<"Ok", 0>>}
      [] desc[1] = "Vector" -> {<<"Ok", desc[2]>>}
      [] OTHER ->
           IF desc[2] < desc[3]
           THEN {<<"Panic">>, <<"Ok", WrapUsize(desc[2] - desc[3] + 1)>>}
           ELSE {<<"Ok", WrapUsize(desc[2] - desc[3] + 1)>>}

\* tokenizer.rs:129-173: tokenize_variable_description, the byte store left
\* out.
TokenizeVariableDescription(suffix, pos) ==
    CASE suffix[1] = "Unspecified" -> <<"Ok", <<"Unspecified">>>>
      [] suffix[1] = "Malformed" -> <<"Err", "LexerError", pos>>
      [] suffix[1] = "Vector" ->
           IF suffix[2][1] = "Err" THEN <<"Err", "IntegerParseError", pos>>
           ELSE <<"Ok", <<"Vector", suffix[2][2]>>>>
      [] OTHER ->
           IF suffix[2][1] = "Err" \/ suffix[3][1] = "Err"
           THEN <<"Err", "IntegerParseError", pos>>
           ELSE <<"Ok", <<"VectorSelect", suffix[2][2], suffix[3][2]>>>>

\* tokenizer.rs:175-224: what tokenize_variable can return on a body.
TokenizeVariable(body, pos) ==
    LET desc == TokenizeVariableDescription(body.suffix, pos)
        width == body.width[2]
        token == [kind |-> "Var", net |-> body.net, width |-> width,
                  idcode |-> TokenizeIdcode(<<>>, body.idcode).id,
                  desc |-> desc[2], name |-> body.name, timescale |-> "",
                  offset |-> "", pos |-> pos]
    IN IF body.net \notin KnownNets THEN {<<"Err", "LexerError", pos>>}
       ELSE IF body.width[1] = "Err"
       THEN {<<"Err", "IntegerParseError", pos>>}
       ELSE IF desc[1] = "Err" THEN {desc}
       ELSE { IF got[1] = "Panic" THEN got
              ELSE IF width # got[2] /\ desc[2][1] # "Unspecified"
              THEN <<"Err", "IncorrectVariableWidth", width, got[2], pos>>
              ELSE IF IsRealNet(body.net) /\ width # 64
              THEN <<"Err", "IncorrectRealWidth", pos>>
              ELSE <<"Ok", token>>
              : got \in GetWidth(desc[2]) }

\* A $var on its way into a header: span is its body, result what
\* tokenize_variable returned, variable what VcdVariable::new made of the
\* token.
VarStart(body) ==
    [kind |-> "Var", span |-> body, result |-> <<"None">>,
     variable |-> <<"None">>]

\* ---------------------------------------------------- tokenize_timescale
\* lexer.rs:39-43: the offsets 1, 10, 100 and the units fs, ps, ns, us, ms,
\* s of a $timescale, in ASCII.
TimescaleOffsets ==
    {<<49>>, <<49, 48>>, <<49, 48, 48>>}

TimescaleUnits ==
    {<<102, 115>>, <<112, 115>>, <<110, 115>>, <<117, 115>>, <<109, 115>>,
     <<115>>}

\* Whitespace the lexer's [\s] takes: a space stands for what
\* get_bytes_trimmed strips, a carriage return for what it leaves.
Spaces == {32, 13}

\* tokenizer.rs:22, 32, 245, 251: b' ' | b'\t' | b'\n'
Blanks == {32, 9, 10}

SpaceRuns(least) == UNION { [1..n -> Spaces] : n \in least..MaxSpace }

\* tokenizer.rs:241-256: get_bytes_trimmed.
RECURSIVE TrimStart(_)
TrimStart(span) ==
    IF span # <<>> /\ Head(span) \in Blanks
    THEN TrimStart(Tail(span))
    ELSE span

RECURSIVE TrimEnd(_)
TrimEnd(span) ==
    IF span # <<>> /\ span[Len(span)] \in Blanks
    THEN TrimEnd(SubSeq(span, 1, Len(span) - 1))
    ELSE span

GetBytesTrimmed(span) == TrimEnd(TrimStart(span))

\* tokenizer.rs:110-127: tokenize_timescale; bytes[i] of the code is
\* bytes[i + 1] here.
TokenizeTimescale(span) ==
    LET offset == IF span[2] = AsciiZero
                  THEN IF span[3] = AsciiZero THEN "100" ELSE "10"
                  ELSE "1"
        unit == span[Len(span) - 1]
        timescale == CASE unit = 102 -> "fs"
                       [] unit = 112 -> "ps"
                       [] unit = 110 -> "ns"
                       [] unit = 117 -> "us"
                       [] unit = 109 -> "ms"
                       [] OTHER -> "s"
    IN <<"Ok", timescale, offset>>

\* A $timescale on its way into a header: span is the bytes between
\* $timescale and $end, result what tokenize_timescale returned, timescale
\* what parse_header recorded.
TimescaleStart(span) ==
    [kind |-> "Timescale", span |-> span, result |-> <<"None">>,
     timescale |-> <<"None">>]

\* ------------------------------------------------- a $var, byte by byte
\* tokenizer.rs:20-28: the place, counted from 0, of the first blank, 0
\* without one.
RECURSIVE FirstBlank(_, _)
FirstBlank(span, i) ==
    IF i > Len(span) THEN 0
    ELSE IF span[i] \in Blanks THEN i - 1
    ELSE FirstBlank(span, i + 1)

\* tokenizer.rs:29-38: the place of the first byte from `first` on that is
\* no blank, 0 without one.
RECURSIVE FirstWord(_, _)
FirstWord(span, i) ==
    IF i > Len(span) THEN 0
    ELSE IF span[i] \notin Blanks THEN i - 1
    ELSE FirstWord(span, i + 1)

\* tokenizer.rs:18-40: split_bytes, as the two slices of its ranges.
SplitBytes(span) ==
    LET first == FirstBlank(span, 1)
        second == FirstWord(span, first + 1)
    IN <<SubSeq(span, 1, first), SubSeq(span, second + 1, Len(span))>>

\* The number a run of decimal digits denotes.
RECURSIVE Decimal(_)
Decimal(digits) ==
    IF digits = <<>> THEN 0
    ELSE 10 * Decimal(SubSeq(digits, 1, Len(digits) - 1))
         + (digits[Len(digits)] - AsciiZero)

\* str::parse::<usize> on a word.
ParseUsize(word) ==
    IF word = <<>> \/ \E i \in DOMAIN word : word[i] \notin 48..57
    THEN <<"Err">>
    ELSE IF Decimal(word) >= UsizeModulus THEN <<"Err">>
    ELSE <<"Ok", Decimal(word)>>

\* format!("{}", n)
RECURSIVE FormatUsize(_)
FormatUsize(n) ==
    IF n < 10 THEN <<AsciiZero + n>>
    ELSE FormatUsize(n \div 10) \o <<AsciiZero + (n % 10)>>

\* The place of the first colon in a run, 0 without one.
RECURSIVE Colon(_, _)
Colon(run, i) ==
    IF i > Len(run) THEN 0
    ELSE IF run[i] = 58 THEN i
    ELSE Colon(run, i + 1)

\* tokenizer.rs:135-171: the name and the bracket suffix
\* tokenize_variable_description reads from a reference.
ReadSuffix(span) ==
    LET split == SplitBytes(span)
        range == split[2]
        inner == SubSeq(range, 2, Len(range) - 1)
        colon == Colon(inner, 1)
    IN IF split[1] = <<>>
       THEN [name |-> span, suffix |-> <<"Unspecified">>]
       ELSE IF Len(range) <= 2 \/ range[1] # 91 \/ range[Len(range)] # 93
       THEN [name |-> split[1], suffix |-> <<"Malformed">>]
       ELSE IF colon # 0
       THEN [name |-> split[1],
             suffix |-> <<"VectorSelect",
                          ParseUsize(SubSeq(inner, 1, colon - 1)),
                          ParseUsize(SubSeq(inner, colon + 1, Len(inner)))>>]
       ELSE [name |-> split[1], suffix |-> <<"Vector", ParseUsize(inner)>>]

\* token.rs:92-113: to_byte_str of the net types "wire" and "real".
NetWord(net) ==
    IF net = "wire" THEN <<119, 105, 114, 101>> ELSE <<114, 101, 97, 108>>

\* token.rs:92-113: from_byte_str, "bogus" for None.
NetOf(word) ==
    IF word = NetWord("wire") THEN "wire"
    ELSE IF word = NetWord("real") THEN "real"
    ELSE "bogus"

\* tokenizer.rs:185-201: the words tokenize_variable splits a body into.
ReadVar(span) ==
    LET net == SplitBytes(span)
        width == SplitBytes(net[2])
        idcode == SplitBytes(width[2])
        reference == ReadSuffix(idcode[2])
    IN [net |-> NetOf(net[1]), width |-> ParseUsize(width[1]),
        idcode |-> idcode[1], name |-> reference.name,
        suffix |-> reference.suffix]

\* "$var" and "$end"
VarKeyword == <<36, 118, 97, 114>>

EndKeyword == <<36, 101, 110, 100>>

\* The runs of bytes between whitespace, the lexer's [\S]+.
RECURSIVE Words(_, _)
Words(span, word) ==
    IF span = <<>> THEN IF word = <<>> THEN <<>> ELSE <<word>>
    ELSE IF Head(span) \in Blanks \cup Spaces
    THEN (IF word = <<>> THEN <<>> ELSE <<word>>) \o Words(Tail(span), <<>>)
    ELSE Words(Tail(span), Append(word, Head(span)))

\* lexer.rs:45: [1-9][0-9_]*
IsWidthWord(word) ==
    /\ word # <<>>
    /\ word[1] \in 49..57
    /\ \A i \in 2..Len(word) : word[i] \in 48..57 \cup {95}

\* lexer.rs:45: (0|([1-9][0-9_]*))
IsIndexWord(word) == word = <<AsciiZero>> \/ IsWidthWord(word)

\* lexer.rs:45: \[(0|([1-9][0-9_]*))([:](0|([1-9][0-9_]*)))?\]
IsSuffixWord(word) ==
    LET inner == SubSeq(word, 2, Len(word) - 1)
        colon == Colon(inner, 1)
    IN /\ Len(word) > 2
       /\ word[1] = 91
       /\ word[Len(word)] = 93
       /\ IF colon = 0 THEN IsIndexWord(inner)
          ELSE /\ IsIndexWord(SubSeq(inner, 1, colon - 1))
               /\ IsIndexWord(SubSeq(inner, colon + 1, Len(inner)))

\* lexer.rs:44-48 and 192-196: the span of a line that is one $var, the
\* bytes between $var and $end.
LexVar(line) ==
    LET words == Words(line, <<>>)
        n == Len(words)
    IN IF /\ n \in {6, 7}
          /\ words[1] = VarKeyword
          /\ words[n] = EndKeyword
          /\ IsWidthWord(words[3])
          /\ \A i \in DOMAIN words[4] :
                 words[4][i] \in PrintableLow..PrintableHigh
          /\ n = 7 => IsSuffixWord(words[6])
          /\ line[Len(line)] = 10
       THEN <<"Ok", SubSeq(line, 5, Len(line) - 5)>>
       ELSE <<"Err">>

\* tokenizer.rs:297-307 after the lexer: what a line that is one $var is
\* tokenized to.
TokenizeLine(line) ==
    LET lexed == LexVar(line)
    IN IF lexed[1] = "Err" THEN {<<"Err", "LexerError", 1>>}
       ELSE TokenizeVariable(ReadVar(GetBytesTrimmed(lexed[2])), 1)

\* token.rs:139-155: TokenVariableDescription::write_to
DescriptionWriteTo(name, desc) ==
    CASE desc[1] = "Unspecified" -> name
      [] desc[1] = "Vector" -> name \o <<91>> \o FormatUsize(desc[2]) \o <<93>>
      [] OTHER -> name \o <<91>> \o FormatUsize(desc[2]) \o <<58>>
                  \o FormatUsize(desc[3]) \o <<93>>

\* token.rs:243-261: Token::write_to of a Var.
VarWriteTo(token) ==
    VarKeyword \o <<32>> \o NetWord(token.net) \o <<32>>
    \o FormatUsize(token.width) \o <<32>>
    \o IdcodeWriteTo(token.idcode, <<>>) \o <<32>>
    \o DescriptionWriteTo(token.name, token.desc) \o <<32>>
    \o EndKeyword \o <<10>>

\* The $var lines read: a net type, a width, the identifier code "!", a
\* name and a bracket suffix or none.
VarLines ==
    { VarKeyword \o <<32>> \o NetWord(net) \o <<32>> \o FormatUsize(width)
      \o <<32, PrintableLow, 32>> \o name \o suffix \o <<32>> \o EndKeyword
      \o <<10>> :
        net \in {"wire", "real"}, width \in {1, 2, 3, 64},
        name \in {<<97>>, <<97, 98>>},
        suffix \in {<<>>}
            \cup { <<32, 91>> \o FormatUsize(n) \o <<93>> : n \in {1, 2, 3, 64} }
            \cup { <<32, 91>> \o FormatUsize(msb) \o <<58>> \o FormatUsize(lsb)
                   \o <<93>> : msb \in 0..2, lsb \in 0..2 } }

\* A $var read, written and read again: span is the line, result the token
\* made of it, written what write_to wrote of the token, again the token
\* made of that.
RoundStart(line) ==
    [kind |-> "Round", span |-> line, result |-> <<"None">>,
     written |-> <<>>, again |-> <<"None">>]

\* ------------------------------------------- get_scope and get_variable
\* The most segments a path has.
MaxSegments == 3

\* path.split('.'): the runs between the dots, `segment` the run begun.
RECURSIVE SplitDots(_, _)
SplitDots(path, segment) ==
    IF path = <<>> THEN <<segment>>
    ELSE IF Head(path) = 46
    THEN <<segment>> \o SplitDots(Tail(path), <<>>)
    ELSE SplitDots(Tail(path), Append(segment, Head(path)))

\* sections.join(".")
RECURSIVE JoinDots(_)
JoinDots(sections) ==
    IF sections = <<>> THEN <<>>
    ELSE IF Len(sections) = 1 THEN sections[1]
    ELSE sections[1] \o <<46>> \o JoinDots(Tail(sections))

\* A search that stops at the first record, whatever its name.
FirstAny(records, name, i) == IF i > Len(records) THEN 0 ELSE i

\* `for record in records { if record.get_name() == name { return ... } }`:
\* the place of the first record of that name from place i on, 0 without
\* one.
RECURSIVE FirstNamed(_, _, _)
FirstNamed(records, name, i) ==
    IF i > Len(records) THEN 0
    ELSE IF records[i].name = name THEN i
    ELSE FirstNamed(records, name, i + 1)

\* The record found `i` deep: what is returned is a reference, modelled as
\* the places that lead to the record, child by child.
Under(i, found) ==
    IF found[1] = "None" THEN found ELSE <<"Some", <<i>> \o found[2]>>

\* parser.rs:209-223
RECURSIVE GetScopeRecursive(_, _)
GetScopeRecursive(scope, path) ==
    LET sections == SplitDots(path, <<>>)
        i == FirstNamed(scope.scopes, sections[1], 1)
    IN IF scope.scopes = <<>> \/ sections = <<>> \/ i = 0 THEN <<"None">>
       ELSE IF Len(sections) > 1
       THEN Under(i, GetScopeRecursive(scope.scopes[i],
                                       JoinDots(Tail(sections))))
       ELSE <<"Some", <<i>>>>

\* parser.rs:225-245
RECURSIVE GetVariableRecursive(_, _)
GetVariableRecursive(scope, path) ==
    LET sections == SplitDots(path, <<>>)
        v == FirstNamed(scope.variables, sections[1], 1)
        i == FirstNamed(scope.scopes, sections[1], 1)
    IN CASE Len(sections) = 0 -> <<"None">>
         [] Len(sections) = 1 ->
              IF v = 0 THEN <<"None">> ELSE <<"Some", <<v>>>>
         [] OTHER ->
              IF i = 0 THEN <<"None">>
              ELSE Under(i, GetVariableRecursive(scope.scopes[i],
                                                 JoinDots(Tail(sections))))

\* parser.rs:281-295: VcdHeader::get_scope
GetScope(header, path) ==
    LET sections == SplitDots(path, <<>>)
        i == FirstNamed(header.scopes, sections[1], 1)
    IN IF header.scopes = <<>> \/ sections = <<>> \/ i = 0 THEN <<"None">>
       ELSE IF Len(sections) > 1
       THEN Under(i, GetScopeRecursive(header.scopes[i],
                                       JoinDots(Tail(sections))))
       ELSE <<"Some", <<i>>>>

\* parser.rs:300-310: VcdHeader::get_variable
GetVariable(header, path) ==
    LET sections == SplitDots(path, <<>>)
        i == FirstNamed(header.scopes, sections[1], 1)
    IN IF header.scopes = <<>> \/ Len(sections) < 2 \/ i = 0 THEN <<"None">>
       ELSE Under(i, GetVariableRecursive(header.scopes[i],
                                          JoinDots(Tail(sections))))

\* The names of scopes: "a", "A" and "a.A".
ScopeNames == {<<97>>, <<65>>, <<97, 46, 65>>}

\* A scope has no variable or the variable "a".
VariableLists ==
    {<<>>,
     <<[name |-> <<97>>, description |-> <<"Unspecified">>,
        width |-> <<"Vector", 1>>, net_type |-> "wire", idcode |-> 0]>>}

NamedScope(name, scopes, variables) ==
    [name |-> name, scope_type |-> "module", scopes |-> scopes,
     variables |-> variables]

InnerScopes ==
    { NamedScope(name, <<>>, variables) :
        name \in ScopeNames, variables \in VariableLists }

RootScopes ==
    { NamedScope(name, scopes, variables) :
        name \in ScopeNames,
        scopes \in {<<>>} \cup { <<inner>> : inner \in InnerScopes },
        variables \in VariableLists }

\* The forests looked into: one root or two, each with one scope inside at
\* most.
Forests ==
    { <<root>> : root \in RootScopes }
    \cup { <<root, next>> : root \in RootScopes, next \in RootScopes }

\* The segments of the paths asked for: "a", "A" and the empty one.
Segments == {<<97>>, <<65>>, <<>>}

\* A header that is asked for a path: call is the method called, found
\* what it returned.
LookupStart(scopes, path) ==
    [header |-> [HeaderStart.header EXCEPT !.scopes = scopes],
     path |-> path, call |-> "None", found |-> <<"None">>]

\* ------------------------------------------------- the lexer's positions
\* What logos matches, one piece a match: a section block and its slice
\* (any bytes, line breaks among them), a simulation command or value (no
\* line break), a run of blanks, a line break.
LexPieces ==
    { [kind |-> "section", slice |-> slice] :
        slice \in {<<120>>, <<10, 120>>, <<120, 10>>, <<120, 10, 10, 120>>} }
    \cup { [kind |-> "value", slice |-> slice] :
             slice \in {<<120>>, <<120, 120>>} }
    \cup {[kind |-> "space", slice |-> <<32>>],
          [kind |-> "newline", slice |-> <<10>>]}

\* A count that puts the byte after a line break in column 0.
RECURSIVE CountNewlinesFromZero(_, _)
CountNewlinesFromZero(slice, n) ==
    IF n = 0 THEN <<0, 0>>
    ELSE LET before == CountNewlinesFromZero(slice, n - 1)
         IN IF slice[n] = 10 THEN <<before[1] + 1, 0>>
            ELSE <<before[1], before[2] + 1>>

\* lexer.rs:13-25: count_newlines, (newlines, columns) after n bytes of the
\* slice.
RECURSIVE CountNewlines(_, _)
CountNewlines(slice, n) ==
    IF n = 0 THEN <<0, 0>>
    ELSE LET before == CountNewlines(slice, n - 1)
         IN IF slice[n] = 10 THEN <<before[1] + 1, 1>>
            ELSE <<before[1], before[2] + 1>>

\* lexer.rs:147-152
ProcessNewlines(lexer, newlines, columns) ==
    IF newlines # 0
    THEN [lexer EXCEPT !.column = columns, !.line = @ + newlines]
    ELSE lexer

\* lexer.rs:130-136: Lexer::new; at is the piece logos matches next, index
\* the place of its first byte.
LexerNew == [line |-> 1, column |-> 1, at |-> 1, index |-> 0]

\* lexer.rs:154-228: next_token on an input the lexer accepts: the lexer it
\* leaves and the position it returns, <<"None">> at the end of the input.
RECURSIVE NextToken(_, _)
NextToken(pieces, lexer) ==
    IF lexer.at > Len(pieces) THEN [lexer |-> lexer, token |-> <<"None">>]
    ELSE LET piece == pieces[lexer.at]
             pos == [index |-> lexer.index, line |-> lexer.line,
                     column |-> lexer.column, length |-> Len(piece.slice)]
             moved == [lexer EXCEPT !.column = @ + Len(piece.slice),
                                    !.index = @ + Len(piece.slice),
                                    !.at = @ + 1]
             counted == CountNewlines(piece.slice, Len(piece.slice))
         IN CASE piece.kind = "section" ->
                   [lexer |-> ProcessNewlines(moved, counted[1], counted[2]),
                    token |-> <<"Some", lexer.at, pos>>]
              [] piece.kind = "value" ->
                   [lexer |-> moved, token |-> <<"Some", lexer.at, pos>>]
              [] piece.kind = "space" -> NextToken(pieces, moved)
              [] OTHER -> NextToken(pieces, ProcessNewlines(moved, 1, 1))

\* A lexer on an input: out lists what next_token returned, each position
\* with the place of its piece.
LexerStart(pieces) ==
    [kind |-> "Lexer", span |-> pieces, lexer |-> LexerNew, out |-> <<>>,
     result |-> <<"None">>]

\* ------------------------------------------------- unformatted blocks
\* lexer.rs:30-35: the keywords of the unformatted blocks, "$comment",
\* "$date" and "$version".
BlockKeywords ==
    {<<36, 99, 111, 109, 109, 101, 110, 116>>, <<36, 100, 97, 116, 101>>,
     <<36, 118, 101, 114, 115, 105, 111, 110>>}

\* lexer.rs:30-35: \$keyword[^$]*\$+([^\$e][^\$]*\$+)*end from byte at of
\* the text on, the keyword behind it: the place of the match's last byte,
\* 0 when the text does not match. The states are the places of the
\* expression: in a run of bytes that are not '$', in a run of '$', past
\* the 'e' and past the 'n' of the closing end.
RECURSIVE MatchBlock(_, _, _)
MatchBlock(text, at, state) ==
    IF at > Len(text) THEN 0
    ELSE LET c == text[at]
         IN CASE state = "body" ->
                   MatchBlock(text, at + 1, IF c = 36 THEN "dollars" ELSE "body")
              [] state = "dollars" ->
                   MatchBlock(text, at + 1,
                              IF c = 36 THEN "dollars"
                              ELSE IF c = 101 THEN "e" ELSE "body")
              [] state = "e" ->
                   IF c = 110 THEN MatchBlock(text, at + 1, "en") ELSE 0
              [] OTHER -> IF c = 100 THEN at ELSE 0

\* lexer.rs:154-180: next_token on a text that starts with the keyword of
\* an unformatted block: the bytes of the span it returns between the
\* keyword and the "$end" of the match, the lexer's error when the block
\* does not match.
NextBlock(keyword, text) ==
    LET end == MatchBlock(text, Len(keyword) + 1, "body")
    IN IF end = 0 THEN <<"Err", "Lexer">>
       ELSE <<"Ok", SubSeq(text, Len(keyword) + 1, end - Len(EndKeyword))>>

\* A lexer in front of an unformatted block.
BlockStart(keyword, text) ==
    [kind |-> "Block", keyword |-> keyword, span |-> text,
     result |-> <<"None">>]

\* ------------------------------------------------------------------ state
VARIABLES
    bytes,            \* the input file
    status,           \* load_multi_threaded's shared (done, total) pair
    reported,         \* the values written to status, in order
    \* the thread behind the returned handle (the orchestrator)
    m_pc, m_result, parser, lexer_pos, last_index, m_fin, m_joined, m_shards,
    tx_lexer, ch_lexer, rx_lexer,
    \* the parser worker
    p_pc, p_result, p_fin,
    tx_parser, ch_parser, rx_parser,
    \* the dispatcher
    d_pc, d_k, d_fin, d_entry, d_seen,
    tx_dispatchers, ch_dispatcher, rx_dispatcher, delivered,
    \* the shard workers
    s_pc, s_result, waveform_shard,
    \* load_single_threaded
    st,
    \* the progress test of load_single_threaded on its own
    pg,
    \* a SenderQueued and its ReceiverQueued on their own
    sq,
    \* a VcdReader in parse_header on its own
    hp,
    \* a VcdReader called for the entries of a token stream
    wp,
    \* a Tokenizer and its byte store on the identifier codes of a load
    ic,
    \* a Lexer or a Tokenizer on one input
    tk

main_vars == <<m_pc, m_result, parser, lexer_pos, last_index, m_fin, m_joined,
               m_shards, tx_lexer, status, reported>>
parser_vars == <<p_pc, p_result, p_fin, tx_parser, rx_lexer>>
disp_vars == <<d_pc, d_k, d_fin, d_entry, d_seen, tx_dispatchers, rx_parser,
               delivered>>
shard_vars == <<s_pc, s_result, waveform_shard, rx_dispatcher>>
chan_vars == <<ch_lexer, ch_parser, ch_dispatcher>>
mt_vars == <<main_vars, parser_vars, disp_vars, shard_vars, chan_vars>>
\* the state of the units that are run on their own
unit_vars == <<pg, sq, hp, wp, ic, tk>>
vars == <<bytes, mt_vars, st, unit_vars>>

file_size == FileSize(bytes)

Terminated == {"done", "panicked"}

\* *status.lock().unwrap() = value
SetStatus(value) == status' = value /\ reported' = Append(reported, value)

\* A final value that restates the start of the file.
FinalStatusStale(size) == <<0, size>>

\* utils.rs:256: the value written at the end of the input.
FinalStatus(size) == <<size, size>>

InitOver(inputs) ==
    /\ bytes \in inputs
    /\ status = <<0, 0>>
    /\ reported = <<>>
    /\ m_pc = "start" /\ m_result = <<"None">> /\ parser = <<"None">>
    /\ lexer_pos = 0 /\ last_index = 0 /\ m_fin = <<>> /\ m_joined = {}
    /\ m_shards = <<>>
    /\ tx_lexer = <<>> /\ ch_lexer = NewChannel /\ rx_lexer = NewReceiver
    /\ p_pc = "unborn" /\ p_result = <<"None">> /\ p_fin = <<>>
    /\ tx_parser = <<>> /\ ch_parser = NewChannel /\ rx_parser = NewReceiver
    /\ d_pc = "unborn" /\ d_k = 0 /\ d_fin = <<>> /\ d_entry = <<>>
    /\ d_seen = <<>>
    /\ tx_dispatchers = [i \in Shards |-> <<>>]
    /\ ch_dispatcher = [i \in Shards |-> NewChannel]
    /\ rx_dispatcher = [i \in Shards |-> NewReceiver]
    /\ delivered = [i \in Shards |-> <<>>]
    /\ s_pc = [i \in Shards |-> "unborn"]
    /\ s_result = [i \in Shards |-> <<"None">>]
    /\ waveform_shard = [i \in Shards |-> <<>>]
    /\ st = SingleStart

IdcodeRest == IdcodeStart(<<PrintableLow>>, <<PrintableLow>>)

TokenizerRest == TokenizerStart("None", <<>>)

\* The units at rest, while a loader runs.
UnitStart ==
    /\ pg = ProgressStart(ProgressSteps)
    /\ sq = QueuedStart
    /\ hp = HeaderStart
    /\ wp = WaveformStart(<<>>, "None")
    /\ ic = IdcodeRest
    /\ tk = TokenizerRest

\* The input of the loaders while a unit is run on its own.
IdleInput == [header |-> "ok", body |-> <<>>, lex_fail |-> FALSE]

Init == InitOver(Inputs) /\ UnitStart

\* No loader running, every unit at rest.
Init0 == InitOver({IdleInput}) /\ UnitStart

\* ------------------------------------------- load_multi_threaded: the handle
\* A panic of the handle's thread (an unwrap of a failed send or join): its
\* locals are dropped, tx_lexer among them.
MainPanic ==
    /\ m_pc' = "panicked"
    /\ m_result' = <<"Panic">>
    /\ ch_lexer' = [ch_lexer EXCEPT !.tx = FALSE]
    /\ UNCHANGED <<parser, lexer_pos, last_index, m_fin, m_joined, m_shards,
                   tx_lexer, status, reported>>

\* utils.rs:166
MainStart ==
    /\ m_pc = "start"
    /\ SetStatus(<<TokenIndex(bytes, 0), file_size>>)
    /\ m_pc' = "header"
    /\ UNCHANGED <<bytes, m_result, parser, lexer_pos, last_index, m_fin,
                   m_joined, m_shards, tx_lexer, parser_vars, disp_vars,
                   shard_vars, chan_vars, st, unit_vars>>

\* utils.rs:167-243: parse_header, then the workers are spawned.
MainHeader ==
    /\ m_pc = "header"
    /\ LET r == ParseHeader(bytes) IN
       IF r[1] = "Err"
       THEN /\ m_pc' = "done"
            /\ m_result' = <<"Err", r[2]>>
            /\ UNCHANGED <<parser, status, reported, last_index, p_pc, d_pc,
                           s_pc>>
       ELSE /\ parser' = [header |-> r[2]]
            /\ SetStatus(<<TokenIndex(bytes, 0), file_size>>)
            /\ last_index' = TokenIndex(bytes, 0)
            /\ p_pc' = "run"
            /\ d_pc' = "recv"
            /\ s_pc' = [i \in Shards |-> "run"]
            /\ m_pc' = "lex"
            /\ UNCHANGED m_result
    /\ UNCHANGED <<bytes, lexer_pos, m_fin, m_joined, m_shards, tx_lexer,
                   p_result, p_fin, tx_parser, rx_lexer, d_k, d_fin, d_entry,
                   d_seen, tx_dispatchers, rx_parser, delivered, s_result,
                   waveform_shard, rx_dispatcher, chan_vars, st, unit_vars>>

\* utils.rs:246-253: a token is lexed, sent, and progress is reported.
MainLexToken ==
    /\ m_pc = "lex"
    /\ LexerNext(bytes, lexer_pos)[1] = "Some"
    /\ LET tok == LexerNext(bytes, lexer_pos)[2]
           queue == QueuePush(tx_lexer, tok)
           index == TokenIndex(bytes, lexer_pos + 1)
       IN /\ NeedsFlush(queue) => CanSend(ch_lexer)
          /\ IF NeedsFlush(queue) /\ SendFails(ch_lexer)
             THEN MainPanic
             ELSE /\ IF NeedsFlush(queue)
                     THEN /\ ch_lexer' = ChannelSend(ch_lexer, queue)
                          /\ tx_lexer' = <<>>
                     ELSE /\ tx_lexer' = queue
                          /\ UNCHANGED ch_lexer
                  /\ lexer_pos' = lexer_pos + 1
                  /\ IF ProgressDue(index, last_index, file_size)
                     THEN SetStatus(<<index, file_size>>) /\ last_index' = index
                     ELSE UNCHANGED <<status, reported, last_index>>
                  /\ UNCHANGED <<m_pc, m_result, parser, m_fin, m_joined,
                                 m_shards>>
    /\ UNCHANGED <<bytes, parser_vars, disp_vars, shard_vars, ch_parser,
                   ch_dispatcher, st, unit_vars>>

\* One send of tx_lexer.finish(), fin being the batches still to send, and
\* what follows the last one: utils.rs:256-257 at the end of the input,
\* utils.rs:261 at a lexer error.
MainFinishStep(fin, pc) ==
    /\ CanSend(ch_lexer)
    /\ IF SendFails(ch_lexer) THEN MainPanic
       ELSE IF Len(fin) > 1
       THEN /\ ch_lexer' = ChannelSend(ch_lexer, Head(fin))
            /\ m_fin' = Tail(fin)
            /\ m_pc' = pc
            /\ tx_lexer' = <<>>
            /\ UNCHANGED <<m_result, parser, lexer_pos, last_index, m_joined,
                           m_shards, status, reported>>
       ELSE /\ ch_lexer' = [ChannelSend(ch_lexer, Head(fin)) EXCEPT !.tx = FALSE]
            /\ m_fin' = <<>>
            /\ tx_lexer' = <<>>
            /\ IF pc = "finish_eof"
               THEN /\ SetStatus(FinalStatus(file_size))
                    /\ m_pc' = "join_parser"
                    /\ UNCHANGED m_result
               ELSE /\ m_pc' = "done"
                    /\ m_result' =
                         <<"Err", <<"Lexer", LexerNext(bytes, lexer_pos)[2]>>>>
                    /\ UNCHANGED <<status, reported>>
            /\ UNCHANGED <<parser, lexer_pos, last_index, m_joined, m_shards>>
    /\ UNCHANGED <<bytes, parser_vars, disp_vars, shard_vars, ch_parser,
                   ch_dispatcher, st, unit_vars>>

\* utils.rs:254-258
MainLexEnd ==
    /\ m_pc = "lex"
    /\ LexerNext(bytes, lexer_pos)[1] = "None"
    /\ MainFinishStep(FinishBatches(tx_lexer), "finish_eof")

\* utils.rs:259-262
MainLexError ==
    /\ m_pc = "lex"
    /\ LexerNext(bytes, lexer_pos)[1] = "Err"
    /\ MainFinishStep(FinishBatches(tx_lexer), "finish_err")

\* the second send of tx_lexer.finish()
MainFinish ==
    /\ m_pc \in {"finish_eof", "finish_err"}
    /\ MainFinishStep(m_fin, m_pc)

\* utils.rs:265
MainJoinParser ==
    /\ m_pc = "join_parser"
    /\ p_pc \in Terminated
    /\ IF p_pc = "panicked" THEN MainPanic
       ELSE /\ m_joined' = m_joined \cup {<<"parser", 0>>}
            /\ IF p_result[1] = "Err"
               THEN /\ m_result' = <<"Err", <<"Parser", p_result[2]>>>>
                    /\ m_pc' = "done"
               ELSE /\ m_pc' = "join_dispatcher"
                    /\ UNCHANGED m_result
            /\ UNCHANGED <<parser, lexer_pos, last_index, m_fin, m_shards,
                           tx_lexer, status, reported, ch_lexer>>
    /\ UNCHANGED <<bytes, parser_vars, disp_vars, shard_vars, ch_parser,
                   ch_dispatcher, st, unit_vars>>

\* utils.rs:266
MainJoinDispatcher ==
    /\ m_pc = "join_dispatcher"
    /\ d_pc \in Terminated
    /\ IF d_pc = "panicked" THEN MainPanic
       ELSE /\ m_joined' = m_joined \cup {<<"dispatcher", 0>>}
            /\ m_pc' = "join_shards"
            /\ UNCHANGED <<m_result, parser, lexer_pos, last_index, m_fin,
                           m_shards, tx_lexer, status, reported, ch_lexer>>
    /\ UNCHANGED <<bytes, parser_vars, disp_vars, shard_vars, ch_parser,
                   ch_dispatcher, st, unit_vars>>

\* A loop over the handles that ends at the first of them.
LastHandleFirst(i) == i = 1

\* utils.rs:268-270: the loop over waveform_handles ends with the last one.
LastHandle(i) == i = waveform_threads

\* utils.rs:267-271
MainJoinShard ==
    /\ m_pc = "join_shards"
    /\ LET i == Len(m_shards) + 1 IN
       /\ s_pc[i] \in Terminated
       /\ IF s_pc[i] = "panicked" THEN MainPanic
          ELSE /\ m_joined' = m_joined \cup {<<"shard", i>>}
               /\ IF s_result[i][1] = "Err"
                  THEN /\ m_result' = <<"Err", <<"Waveform", s_result[i][2]>>>>
                       /\ m_pc' = "done"
                       /\ UNCHANGED m_shards
                  ELSE /\ m_shards' = Append(m_shards, s_result[i][2])
                       /\ IF LastHandle(i)
                          THEN /\ m_result' =
                                    <<"Ok", IntoHeader(p_result[2]),
                                      Unshard(m_shards')>>
                               /\ m_pc' = "done"
                          ELSE UNCHANGED <<m_result, m_pc>>
               /\ UNCHANGED <<parser, lexer_pos, last_index, m_fin, tx_lexer,
                              status, reported, ch_lexer>>
    /\ UNCHANGED <<bytes, parser_vars, disp_vars, shard_vars, ch_parser,
                   ch_dispatcher, st, unit_vars>>

\* ------------------------------------------------------- the parser worker
\* A panic of the parser worker (an unwrap of a failed recv or send): its
\* locals are dropped, rx_lexer and tx_parser among them.
ParserPanic ==
    /\ p_pc' = "panicked"
    /\ ch_lexer' = [ch_lexer EXCEPT !.rx = FALSE]
    /\ ch_parser' = [ch_parser EXCEPT !.tx = FALSE]
    /\ UNCHANGED <<p_result, p_fin, tx_parser, rx_lexer>>

\* utils.rs:203-212: parse_waveform pulls one token through rx_lexer.recv();
\* an entry is pushed on tx_parser, the end of the tokens or an error starts
\* tx_parser.finish().
ParserRecv ==
    /\ p_pc = "run"
    /\ CanRecv(rx_lexer, ch_lexer)
    /\ LET r == Recv(rx_lexer, ch_lexer) IN
       IF r[1] = "Err" THEN ParserPanic
       ELSE /\ rx_lexer' = r[3]
            /\ ch_lexer' = [ch_lexer EXCEPT !.buf = r[4]]
            /\ UNCHANGED ch_parser
            /\ IF r[1] = "None"
               THEN /\ p_result' = <<"Ok", parser>>
                    /\ p_fin' = FinishBatches(tx_parser)
                    /\ p_pc' = "finish"
                    /\ UNCHANGED tx_parser
               ELSE LET t == ParseToken(r[2]) IN
                    CASE t[1] = "Err" ->
                           /\ p_result' = <<"Err", t[2]>>
                           /\ p_fin' = FinishBatches(tx_parser)
                           /\ p_pc' = "finish"
                           /\ UNCHANGED tx_parser
                      [] t[1] = "Ignore" ->
                           UNCHANGED <<p_pc, p_result, p_fin, tx_parser>>
                      [] OTHER ->
                           /\ tx_parser' = QueuePush(tx_parser, t[2])
                           /\ p_pc' = IF NeedsFlush(tx_parser') THEN "flush"
                                      ELSE "run"
                           /\ UNCHANGED <<p_result, p_fin>>
    /\ UNCHANGED <<bytes, main_vars, disp_vars, shard_vars, ch_dispatcher,
                   st, unit_vars>>

\* utils.rs:204: the channel send of tx_parser.send(entry), once the batch
\* is full.
ParserFlush ==
    /\ p_pc = "flush"
    /\ CanSend(ch_parser)
    /\ IF SendFails(ch_parser) THEN ParserPanic
       ELSE /\ ch_parser' = ChannelSend(ch_parser, tx_parser)
            /\ tx_parser' = <<>>
            /\ p_pc' = "run"
            /\ UNCHANGED <<p_result, p_fin, rx_lexer, ch_lexer>>
    /\ UNCHANGED <<bytes, main_vars, disp_vars, shard_vars, ch_dispatcher,
                   st, unit_vars>>

\* utils.rs:206-211: one send of tx_parser.finish(); after the last one the
\* worker returns p_result and its rx_lexer is dropped.
ParserFinish ==
    /\ p_pc = "finish"
    /\ CanSend(ch_parser)
    /\ IF SendFails(ch_parser) THEN ParserPanic
       ELSE IF Len(p_fin) > 1
       THEN /\ ch_parser' = ChannelSend(ch_parser, Head(p_fin))
            /\ p_fin' = Tail(p_fin)
            /\ tx_parser' = <<>>
            /\ UNCHANGED <<p_pc, p_result, rx_lexer, ch_lexer>>
       ELSE /\ ch_parser' =
                 [ChannelSend(ch_parser, Head(p_fin)) EXCEPT !.tx = FALSE]
            /\ ch_lexer' = [ch_lexer EXCEPT !.rx = FALSE]
            /\ p_fin' = <<>>
            /\ tx_parser' = <<>>
            /\ p_pc' = "done"
            /\ UNCHANGED <<p_result, rx_lexer>>
    /\ UNCHANGED <<bytes, main_vars, disp_vars, shard_vars, ch_dispatcher,
                   st, unit_vars>>

\* ----------------------------------------------------------- the dispatcher
\* A panic of the dispatcher: rx_parser and every tx_dispatcher are dropped.
DispatcherPanic ==
    /\ d_pc' = "panicked"
    /\ ch_parser' = [ch_parser EXCEPT !.rx = FALSE]
    /\ ch_dispatcher' = [i \in Shards |-> [ch_dispatcher[i] EXCEPT !.tx = FALSE]]
    /\ UNCHANGED <<d_k, d_fin, d_entry, d_seen, tx_dispatchers, rx_parser,
                   delivered>>

\* utils.rs:219-221: the loop over tx_dispatchers from shard k on: the
\* timestamp is pushed on each queue, up to the first one that has to be
\* flushed.  <<k, queues>>: the shard whose batch is to be sent, or
\* waveform_threads + 1 when the loop has ended.
RECURSIVE BroadcastFrom(_, _, _)
BroadcastFrom(k, txs, e) ==
    IF k > waveform_threads THEN <<k, txs>>
    ELSE IF k \notin BroadcastTo THEN BroadcastFrom(k + 1, txs, e)
    ELSE LET queue == QueuePush(txs[k], e) IN
         IF NeedsFlush(queue) THEN <<k, [txs EXCEPT ![k] = queue]>>
         ELSE BroadcastFrom(k + 1, [txs EXCEPT ![k] = queue], e)

\* The dispatcher after its pushes b == BroadcastFrom(...): it sends shard
\* b[1]'s batch or is back at rx_parser.recv().
DispatcherAfterPush(b, e) ==
    /\ tx_dispatchers' = b[2]
    /\ IF b[1] <= waveform_threads
       THEN d_pc' = "flush" /\ d_k' = b[1] /\ d_entry' = e
       ELSE d_pc' = "recv" /\ d_k' = 0 /\ d_entry' = <<>>

\* utils.rs:216-239: rx_parser.recv() and the pushes that follow it.
DispatcherRecv ==
    /\ d_pc = "recv"
    /\ CanRecv(rx_parser, ch_parser)
    /\ LET r == Recv(rx_parser, ch_parser) IN
       IF r[1] = "Err" THEN DispatcherPanic
       ELSE /\ rx_parser' = r[3]
            /\ ch_parser' = [ch_parser EXCEPT !.buf = r[4]]
            /\ UNCHANGED <<ch_dispatcher, delivered>>
            /\ IF r[1] = "None"
               THEN /\ d_pc' = "finish"
                    /\ d_k' = 1
                    /\ d_fin' = FinishBatches(tx_dispatchers[1])
                    /\ UNCHANGED <<d_entry, d_seen, tx_dispatchers>>
               ELSE /\ d_seen' = Append(d_seen, r[2])
                    /\ UNCHANGED d_fin
                    /\ IF r[2].kind = "ts"
                       THEN DispatcherAfterPush(
                                BroadcastFrom(1, tx_dispatchers, r[2]), r[2])
                       ELSE LET i == ShardOf(r[2].id)
                                queue == QueuePush(tx_dispatchers[i], r[2])
                            IN DispatcherAfterPush(
                                 <<IF NeedsFlush(queue) THEN i
                                   ELSE waveform_threads + 1,
                                   [tx_dispatchers EXCEPT ![i] = queue]>>, r[2])
    /\ UNCHANGED <<bytes, main_vars, parser_vars, shard_vars, ch_lexer, st, unit_vars>>

\* utils.rs:220, 225, 230: the channel send of a full batch to shard d_k,
\* and, for a timestamp, the rest of the loop over tx_dispatchers.
DispatcherFlush ==
    /\ d_pc = "flush"
    /\ CanSend(ch_dispatcher[d_k])
    /\ IF SendFails(ch_dispatcher[d_k]) THEN DispatcherPanic
       ELSE /\ ch_dispatcher' =
                 [ch_dispatcher EXCEPT
                    ![d_k] = ChannelSend(@, tx_dispatchers[d_k])]
            /\ delivered' =
                 [delivered EXCEPT ![d_k] = @ \o tx_dispatchers[d_k]]
            /\ LET txs == [tx_dispatchers EXCEPT ![d_k] = <<>>] IN
               IF d_entry.kind = "ts"
               THEN DispatcherAfterPush(
                        BroadcastFrom(d_k + 1, txs, d_entry), d_entry)
               ELSE DispatcherAfterPush(<<waveform_threads + 1, txs>>, d_entry)
            /\ UNCHANGED <<d_fin, d_seen, rx_parser, ch_parser>>
    /\ UNCHANGED <<bytes, main_vars, parser_vars, shard_vars, ch_lexer, st, unit_vars>>

\* utils.rs:235-238: one send of tx_dispatchers[d_k].finish(); after the
\* last shard's the dispatcher returns.
DispatcherFinish ==
    /\ d_pc = "finish"
    /\ CanSend(ch_dispatcher[d_k])
    /\ IF SendFails(ch_dispatcher[d_k]) THEN DispatcherPanic
       ELSE /\ delivered' = [delivered EXCEPT ![d_k] = @ \o Head(d_fin)]
            /\ tx_dispatchers' = [tx_dispatchers EXCEPT ![d_k] = <<>>]
            /\ UNCHANGED <<d_entry, d_seen, rx_parser>>
            /\ IF Len(d_fin) > 1
               THEN /\ ch_dispatcher' =
                         [ch_dispatcher EXCEPT
                            ![d_k] = ChannelSend(@, Head(d_fin))]
                    /\ d_fin' = Tail(d_fin)
                    /\ UNCHANGED <<d_pc, d_k, ch_parser>>
               ELSE /\ ch_dispatcher' =
                         [ch_dispatcher EXCEPT
                            ![d_k] = [ChannelSend(@, Head(d_fin))
                                        EXCEPT !.tx = FALSE]]
                    /\ IF d_k < waveform_threads
                       THEN /\ d_k' = d_k + 1
                            /\ d_fin' = FinishBatches(tx_dispatchers[d_k + 1])
                            /\ UNCHANGED <<d_pc, ch_parser>>
                       ELSE /\ d_pc' = "done"
                            /\ d_k' = 0
                            /\ d_fin' = <<>>
                            /\ ch_parser' = [ch_parser EXCEPT !.rx = FALSE]
    /\ UNCHANGED <<bytes, main_vars, parser_vars, shard_vars, ch_lexer, st, unit_vars>>

\* --------------------------------------------------------- the shard workers
\* utils.rs:191-200: rx_dispatcher.recv() and the storage call.  The worker
\* returns at the end of its entries or at the first WaveformError, and
\* panics on a RecvError; its rx_dispatcher is dropped in each case.
ShardRecv(i) ==
    /\ s_pc[i] = "run"
    /\ CanRecv(rx_dispatcher[i], ch_dispatcher[i])
    /\ LET r == Recv(rx_dispatcher[i], ch_dispatcher[i])
           a == StorageApply(waveform_shard[i], r[2])
           gone == [ch_dispatcher EXCEPT ![i].rx = FALSE, ![i].buf = r[4]]
       IN CASE r[1] = "Err" ->
                 /\ s_pc' = [s_pc EXCEPT ![i] = "panicked"]
                 /\ ch_dispatcher' = gone
                 /\ UNCHANGED <<s_result, waveform_shard, rx_dispatcher>>
            [] r[1] = "None" ->
                 /\ s_pc' = [s_pc EXCEPT ![i] = "done"]
                 /\ s_result' = [s_result EXCEPT ![i] = <<"Ok", waveform_shard[i]>>]
                 /\ ch_dispatcher' = gone
                 /\ rx_dispatcher' = [rx_dispatcher EXCEPT ![i] = r[3]]
                 /\ UNCHANGED waveform_shard
            [] r[1] = "Some" /\ a[1] = "Err" ->
                 /\ s_pc' = [s_pc EXCEPT ![i] = "done"]
                 /\ s_result' = [s_result EXCEPT ![i] = <<"Err", a[2]>>]
                 /\ ch_dispatcher' = gone
                 /\ rx_dispatcher' = [rx_dispatcher EXCEPT ![i] = r[3]]
                 /\ UNCHANGED waveform_shard
            [] OTHER ->
                 /\ waveform_shard' = [waveform_shard EXCEPT ![i] = a[2]]
                 /\ ch_dispatcher' = [ch_dispatcher EXCEPT ![i].buf = r[4]]
                 /\ rx_dispatcher' = [rx_dispatcher EXCEPT ![i] = r[3]]
                 /\ UNCHANGED <<s_pc, s_result>>
    /\ UNCHANGED <<bytes, main_vars, parser_vars, disp_vars, ch_lexer,
                   ch_parser, st, unit_vars>>

ShardStep == \E i \in Shards : ShardRecv(i)

\* ----------------------------------------- load_single_threaded, as actions
SingleHeader ==
    /\ st.pc = "start"
    /\ st' = SingleHeaderOf(bytes, st)
    /\ UNCHANGED <<bytes, mt_vars, unit_vars>>

SingleStep ==
    /\ st.pc = "loop"
    /\ st' = SingleLoopOf(bytes, st)
    /\ UNCHANGED <<bytes, mt_vars, unit_vars>>

SingleNext == SingleHeader \/ SingleStep

MainNext ==
    \/ MainStart \/ MainHeader \/ MainLexToken \/ MainLexEnd \/ MainLexError
    \/ MainFinish \/ MainJoinParser \/ MainJoinDispatcher \/ MainJoinShard

MultiNext ==
    \/ MainNext
    \/ ParserRecv \/ ParserFlush \/ ParserFinish
    \/ DispatcherRecv \/ DispatcherFlush \/ DispatcherFinish
    \/ ShardStep

Next == MultiNext

\* load_multi_threaded alone.
Spec == Init /\ [][Next]_vars

\* load_single_threaded alone.
SpecSingle == Init /\ [][SingleNext]_vars

\* load_multi_threaded under the scheduling of OS threads: a thread that can
\* take a step eventually takes one.
Fairness ==
    /\ WF_vars(MainNext)
    /\ WF_vars(ParserRecv \/ ParserFlush \/ ParserFinish)
    /\ WF_vars(DispatcherRecv \/ DispatcherFlush \/ DispatcherFinish)
    /\ \A i \in Shards : WF_vars(ShardRecv(i))

\* One loader after the other on the same input, as tests.rs:391-467 runs
\* them: load_single_threaded returns before load_multi_threaded is called.
NextPerf == SingleNext \/ (st.pc = "done" /\ MultiNext)

SpecPerf == Init /\ [][NextPerf]_vars

\* The inputs of the fair runs: the well-formed ones, and the empty body
\* behind a header that fails or before an unclassified byte, which end the
\* load in its error returns.
LiveInputs == WellFormedInputs \cup InputsOver({}, {"ok", "bad"}, BOOLEAN)

InitLive == InitOver(LiveInputs) /\ UnitStart

SpecLive == InitLive /\ [][Next]_vars /\ Fairness

\* ------------------------------------------------- the progress test alone
\* utils.rs:131-147: one turn of the loop, the entry having moved the lexer
\* between 1 and ValueLen bytes on.
ProgressEntry ==
    /\ pg.entries < MaxLen
    /\ \E d \in 1..ValueLen : pg' = ProgressOf(pg, d)
    /\ UNCHANGED <<bytes, mt_vars, st, sq, hp, wp, ic, tk>>

InitProgress ==
    /\ InitOver({IdleInput})
    /\ pg \in { ProgressStart(size) : size \in FileSizes }
    /\ sq = QueuedStart
    /\ hp = HeaderStart
    /\ wp = WaveformStart(<<>>, "None")
    /\ ic = IdcodeRest
    /\ tk = TokenizerRest

SpecProgress == InitProgress /\ [][ProgressEntry]_vars

\* --------------------------------- SenderQueued and ReceiverQueued alone
\* The producer calls send, which blocks while it has a full batch to place
\* and the channel is full.
QueuedSend ==
    /\ sq.tx_pc = "send"
    /\ Len(sq.sent) < MaxLen
    /\ \E value \in QueuedValues :
          /\ NeedsFlush(QueuePush(sq.queue, value)) => CanSend(sq.ch)
          /\ sq' = QueuedSendOf(sq, value)
    /\ UNCHANGED <<bytes, mt_vars, st, pg, hp, wp, ic, tk>>

\* The producer calls finish, whose channel sends block likewise.
QueuedFinish ==
    /\ sq.tx_pc \in {"send", "finish"}
    /\ CanSend(sq.ch)
    /\ sq' = QueuedFinishOf(sq, IF sq.tx_pc = "send"
                                 THEN FinishBatches(sq.queue) ELSE sq.fin)
    /\ UNCHANGED <<bytes, mt_vars, st, pg, hp, wp, ic, tk>>

\* The consumer calls recv, which blocks while it has nothing to return.
QueuedRecv ==
    /\ IF sq.rx_pc = "done" THEN Len(sq.after) < MaxLen
       ELSE sq.rx_pc = "recv"
    /\ CanRecv(sq.rx, sq.ch)
    /\ sq' = QueuedRecvOf(sq)
    /\ UNCHANGED <<bytes, mt_vars, st, pg, hp, wp, ic, tk>>

QueuedNext == QueuedSend \/ QueuedFinish \/ QueuedRecv

SpecQueued == Init0 /\ [][QueuedNext]_vars

\* ------------------------------------------------------ parse_header alone
\* parse_header is in its loop and the stream has a further place.
HeaderRunning == hp.result = <<"None">> /\ hp.fed < MaxHeaderTokens

ShapesOf(kinds) == { x \in HeaderShapes : x.kind \in kinds }

\* parser.rs:372-375: the generator has no token to give.
HeaderNoToken ==
    /\ HeaderRunning
    /\ \E shape \in ShapesOf({"None", "TokenizerError"}) :
          hp' \in HeaderTurn(hp, HeaderToken(shape, hp.fed + 1))
    /\ UNCHANGED <<bytes, mt_vars, st, pg, sq, wp, ic, tk>>

\* parser.rs:377-392
HeaderInfo ==
    /\ HeaderRunning
    /\ \E shape \in ShapesOf({"Comment", "Date", "Version", "Timescale"}) :
          hp' \in HeaderTurn(hp, HeaderToken(shape, hp.fed + 1))
    /\ UNCHANGED <<bytes, mt_vars, st, pg, sq, wp, ic, tk>>

\* parser.rs:393-404
HeaderScope ==
    /\ HeaderRunning
    /\ \E shape \in ShapesOf({"Scope"}) :
          hp' \in HeaderTurn(hp, HeaderToken(shape, hp.fed + 1))
    /\ UNCHANGED <<bytes, mt_vars, st, pg, sq, wp, ic, tk>>

\* parser.rs:405-437
HeaderVar ==
    /\ HeaderRunning
    /\ \E shape \in ShapesOf({"Var"}) :
          hp' \in HeaderTurn(hp, HeaderToken(shape, hp.fed + 1))
    /\ UNCHANGED <<bytes, mt_vars, st, pg, sq, wp, ic, tk>>

\* parser.rs:438-443
HeaderUpScope ==
    /\ HeaderRunning
    /\ \E shape \in ShapesOf({"UpScope"}) :
          hp' \in HeaderTurn(hp, HeaderToken(shape, hp.fed + 1))
    /\ UNCHANGED <<bytes, mt_vars, st, pg, sq, wp, ic, tk>>

\* parser.rs:444-449
HeaderEndDefinitions ==
    /\ HeaderRunning
    /\ \E shape \in ShapesOf({"EndDefinitions"}) :
          hp' \in HeaderTurn(hp, HeaderToken(shape, hp.fed + 1))
    /\ UNCHANGED <<bytes, mt_vars, st, pg, sq, wp, ic, tk>>

\* parser.rs:450: a token of the body.
HeaderUnexpected ==
    /\ HeaderRunning
    /\ \E shape \in ShapesOf({"Timestamp"}) :
          hp' \in HeaderTurn(hp, HeaderToken(shape, hp.fed + 1))
    /\ UNCHANGED <<bytes, mt_vars, st, pg, sq, wp, ic, tk>>

HeaderNext ==
    \/ HeaderNoToken \/ HeaderInfo \/ HeaderScope \/ HeaderVar
    \/ HeaderUpScope \/ HeaderEndDefinitions \/ HeaderUnexpected

SpecHeader == Init0 /\ [][HeaderNext]_vars

\* ---------------------------------------------------- parse_waveform alone
\* The caller stops at the first None or Err, as both loaders do.
WaveformCalling ==
    IF wp.results = <<>> THEN TRUE
    ELSE LET last == wp.results[Len(wp.results)]
         IN last[1] = "Ok" /\ last[2][1] = "Some"

\* One call of parse_waveform.
WaveformCall ==
    /\ WaveformCalling
    /\ LET r == ParseWaveformCall(wp.stream, wp.ending, wp.at)
       IN wp' = [wp EXCEPT !.at = r[2], !.results = Append(@, r[1])]
    /\ UNCHANGED <<bytes, mt_vars, st, pg, sq, hp, ic, tk>>

InitWaveform ==
    /\ InitOver({IdleInput})
    /\ pg = ProgressStart(ProgressSteps)
    /\ sq = QueuedStart
    /\ hp = HeaderStart
    /\ ic = IdcodeRest
    /\ tk = TokenizerRest
    /\ \E n \in 0..MaxLen, ending \in {"None", "Err"} :
          \E kinds \in [1..n -> WaveformKinds] :
             wp = WaveformStart(WaveformStream(kinds), ending)

SpecWaveform == InitWaveform /\ [][WaveformCall]_vars

\* ---------------------------------------------- the tokenizer's idcodes
\* tokenizer.rs:297-307: the $var of the first identifier code; its idcode
\* is tokenized, then its reference is put in the store.  The header ends.
IdcodeVar ==
    /\ ic.pc = "header"
    /\ LET made == TokenizeIdcode(ic.bs, ic.runs[1])
           named == BsInsert(made.bs, <<PrintableLow>>)
       IN ic' = [ic EXCEPT !.bs = named.bs, !.header_bs = named.bs,
                           !.ids = Append(@, made.id), !.pc = "body"]
    /\ UNCHANGED <<bytes, mt_vars, st, pg, sq, hp, wp, tk>>

\* tokenizer.rs:273-275: a $comment of the body.
IdcodeComment ==
    /\ ic.pc = "body"
    /\ ic' = [ic EXCEPT !.bs = BsInsert(@, <<PrintableLow>>).bs, !.pc = "done"]
    /\ UNCHANGED <<bytes, mt_vars, st, pg, sq, hp, wp, tk>>

\* tokenizer.rs:312-320: a simulation command or a timestamp of the body.
IdcodeCommand ==
    /\ ic.pc = "body"
    /\ ic' = [ic EXCEPT !.pc = "done"]
    /\ UNCHANGED <<bytes, mt_vars, st, pg, sq, hp, wp, tk>>

\* tokenizer.rs:321-348: a value change of the second identifier code.
IdcodeChange ==
    /\ ic.pc = "body"
    /\ LET made == TokenizeIdcode(ic.bs, ic.runs[2])
       IN ic' = [ic EXCEPT !.bs = made.bs, !.ids = Append(@, made.id),
                           !.pc = "done"]
    /\ UNCHANGED <<bytes, mt_vars, st, pg, sq, hp, wp, tk>>

\* token.rs:33-53: every idcode made is written.
IdcodeWrite ==
    /\ ic.pc = "done"
    /\ ic' = [ic EXCEPT !.out = [i \in DOMAIN ic.ids |->
                                    IdcodeWriteTo(ic.ids[i], ic.bs)],
                        !.pc = "written"]
    /\ UNCHANGED <<bytes, mt_vars, st, pg, sq, hp, wp, tk>>

IdcodeNext ==
    \/ IdcodeVar \/ IdcodeComment \/ IdcodeCommand \/ IdcodeChange
    \/ IdcodeWrite

InitIdcode ==
    /\ InitOver({IdleInput})
    /\ pg = ProgressStart(ProgressSteps)
    /\ sq = QueuedStart
    /\ hp = HeaderStart
    /\ wp = WaveformStart(<<>>, "None")
    /\ tk = TokenizerRest
    /\ \E a \in Runs, b \in Runs : ic = IdcodeStart(a, b)

SpecIdcode == InitIdcode /\ [][IdcodeNext]_vars

\* -------------------------------------------- tokenize_timestamp alone
\* tokenizer.rs:318-320
TimestampTokenize ==
    /\ tk.kind = "Timestamp"
    /\ tk.result = <<"None">>
    /\ \E r \in TokenizeTimestamp(tk.span) : tk' = [tk EXCEPT !.result = r]
    /\ UNCHANGED <<bytes, mt_vars, st, pg, sq, hp, wp, ic>>

InitTimestamp ==
    /\ InitOver({IdleInput})
    /\ pg = ProgressStart(ProgressSteps)
    /\ sq = QueuedStart
    /\ hp = HeaderStart
    /\ wp = WaveformStart(<<>>, "None")
    /\ ic = IdcodeRest
    /\ \E digits \in TimestampDigits : tk = TokenizerStart("Timestamp", digits)

SpecTimestamp == InitTimestamp /\ [][TimestampTokenize]_vars

\* --------------------------------------------------- one $var, tokenized
\* tokenizer.rs:297-307
VarTokenize ==
    /\ tk.kind = "Var"
    /\ tk.result = <<"None">>
    /\ \E r \in TokenizeVariable(tk.span, 1) : tk' = [tk EXCEPT !.result = r]
    /\ UNCHANGED <<bytes, mt_vars, st, pg, sq, hp, wp, ic>>

\* parser.rs:415-422: parse_header, a scope open, makes the variable.
VarRecord ==
    /\ tk.kind = "Var"
    /\ tk.result[1] = "Ok"
    /\ tk.variable = <<"None">>
    /\ \E v \in VariableNew(tk.result[2]) : tk' = [tk EXCEPT !.variable = v]
    /\ UNCHANGED <<bytes, mt_vars, st, pg, sq, hp, wp, ic>>

InitVar ==
    /\ InitOver({IdleInput})
    /\ pg = ProgressStart(ProgressSteps)
    /\ sq = QueuedStart
    /\ hp = HeaderStart
    /\ wp = WaveformStart(<<>>, "None")
    /\ ic = IdcodeRest
    /\ \E body \in VarBodies : tk = VarStart(body)

SpecVar == InitVar /\ [][VarTokenize \/ VarRecord]_vars

\* --------------------------------------------- one $timescale, tokenized
\* tokenizer.rs:289-296
TimescaleTokenize ==
    /\ tk.kind = "Timescale"
    /\ tk.result = <<"None">>
    /\ tk' = [tk EXCEPT
                !.result = TokenizeTimescale(GetBytesTrimmed(tk.span))]
    /\ UNCHANGED <<bytes, mt_vars, st, pg, sq, hp, wp, ic>>

\* parser.rs:386-392
TimescaleRecord ==
    /\ tk.kind = "Timescale"
    /\ tk.result[1] = "Ok"
    /\ tk.timescale = <<"None">>
    /\ tk' = [tk EXCEPT
                !.timescale =
                    <<"Some", ConvertTimescale(tk.result[2], tk.result[3])>>]
    /\ UNCHANGED <<bytes, mt_vars, st, pg, sq, hp, wp, ic>>

InitTimescale ==
    /\ InitOver({IdleInput})
    /\ pg = ProgressStart(ProgressSteps)
    /\ sq = QueuedStart
    /\ hp = HeaderStart
    /\ wp = WaveformStart(<<>>, "None")
    /\ ic = IdcodeRest
    /\ \E offset \in TimescaleOffsets, unit \in TimescaleUnits :
         \E lead \in SpaceRuns(1), mid \in SpaceRuns(0),
            trail \in SpaceRuns(1) :
             tk = TimescaleStart(lead \o offset \o mid \o unit \o trail)

SpecTimescale == InitTimescale /\ [][TimescaleTokenize \/ TimescaleRecord]_vars

\* ------------------------------------- one $var, read, written and read
\* tokenizer.rs:297-307
RoundTokenize ==
    /\ tk.kind = "Round"
    /\ tk.result = <<"None">>
    /\ \E r \in TokenizeLine(tk.span) : tk' = [tk EXCEPT !.result = r]
    /\ UNCHANGED <<bytes, mt_vars, st, pg, sq, hp, wp, ic>>

\* token.rs:243-261
RoundWrite ==
    /\ tk.kind = "Round"
    /\ tk.result[1] = "Ok"
    /\ tk.written = <<>>
    /\ tk' = [tk EXCEPT !.written = VarWriteTo(tk.result[2])]
    /\ UNCHANGED <<bytes, mt_vars, st, pg, sq, hp, wp, ic>>

\* tokenizer.rs:297-307, on what was written
RoundAgain ==
    /\ tk.kind = "Round"
    /\ tk.written # <<>>
    /\ tk.again = <<"None">>
    /\ \E r \in TokenizeLine(tk.written) : tk' = [tk EXCEPT !.again = r]
    /\ UNCHANGED <<bytes, mt_vars, st, pg, sq, hp, wp, ic>>

InitRound ==
    /\ InitOver({IdleInput})
    /\ pg = ProgressStart(ProgressSteps)
    /\ sq = QueuedStart
    /\ hp = HeaderStart
    /\ wp = WaveformStart(<<>>, "None")
    /\ ic = IdcodeRest
    /\ \E line \in VarLines : tk = RoundStart(line)

SpecRound == InitRound /\ [][RoundTokenize \/ RoundWrite \/ RoundAgain]_vars

\* ------------------------------------------------- a header, looked into
\* parser.rs:281-295
GetScopeCall ==
    /\ hp.call = "None"
    /\ hp' = [hp EXCEPT !.call = "get_scope",
                        !.found = GetScope(hp.header, hp.path)]
    /\ UNCHANGED <<bytes, mt_vars, st, pg, sq, wp, ic, tk>>

\* parser.rs:300-310
GetVariableCall ==
    /\ hp.call = "None"
    /\ hp' = [hp EXCEPT !.call = "get_variable",
                        !.found = GetVariable(hp.header, hp.path)]
    /\ UNCHANGED <<bytes, mt_vars, st, pg, sq, wp, ic, tk>>

InitLookup ==
    /\ InitOver({IdleInput})
    /\ pg = ProgressStart(ProgressSteps)
    /\ sq = QueuedStart
    /\ wp = WaveformStart(<<>>, "None")
    /\ ic = IdcodeRest
    /\ tk = TokenizerRest
    /\ \E scopes \in Forests, n \in 1..MaxSegments :
         \E sections \in [1..n -> Segments] :
             hp = LookupStart(scopes, JoinDots(sections))

SpecLookup == InitLookup /\ [][GetScopeCall \/ GetVariableCall]_vars

\* ------------------------- tokenize_timestamp on '#', spaces and digits
InitSpaced ==
    /\ InitOver({IdleInput})
    /\ pg = ProgressStart(ProgressSteps)
    /\ sq = QueuedStart
    /\ hp = HeaderStart
    /\ wp = WaveformStart(<<>>, "None")
    /\ ic = IdcodeRest
    /\ \E n \in 0..MaxSpace, digits \in TimestampDigits :
         tk = TokenizerStart("Timestamp", SpacesOf(n) \o digits)

SpecSpaced == InitSpaced /\ [][TimestampTokenize]_vars

\* ------------------------------------------------- the lexer on an input
\* lexer.rs:154-228: one call of next_token.
LexerNextToken ==
    /\ tk.kind = "Lexer"
    /\ tk.result = <<"None">>
    /\ LET next == NextToken(tk.span, tk.lexer)
       IN tk' = IF next.token = <<"None">>
                THEN [tk EXCEPT !.lexer = next.lexer, !.result = <<"End">>]
                ELSE [tk EXCEPT !.lexer = next.lexer,
                                !.out = Append(@, next.token)]
    /\ UNCHANGED <<bytes, mt_vars, st, pg, sq, hp, wp, ic>>

InitLexer ==
    /\ InitOver({IdleInput})
    /\ pg = ProgressStart(ProgressSteps)
    /\ sq = QueuedStart
    /\ hp = HeaderStart
    /\ wp = WaveformStart(<<>>, "None")
    /\ ic = IdcodeRest
    /\ \E n \in 1..MaxLen : \E pieces \in [1..n -> LexPieces] :
         /\ \A i \in 1..(n - 1) :
                pieces[i].kind \in {"value", "space"}
                    => pieces[i + 1].kind # pieces[i].kind
         /\ tk = LexerStart(pieces)

SpecLexer == InitLexer /\ [][LexerNextToken]_vars

\* ------------------------------------------- the lexer on a block
\* lexer.rs:154-180: one call of next_token in front of the block.
BlockNextToken ==
    /\ tk.kind = "Block"
    /\ tk.result = <<"None">>
    /\ tk' = [tk EXCEPT !.result = NextBlock(tk.keyword, tk.span)]
    /\ UNCHANGED <<bytes, mt_vars, st, pg, sq, hp, wp, ic>>

\* The bodies: '$', 'e', 'n', 'd' and 'x' in every order, closed by "$end",
\* with or without a second block end behind it.
InitBlock ==
    /\ InitOver({IdleInput})
    /\ pg = ProgressStart(ProgressSteps)
    /\ sq = QueuedStart
    /\ hp = HeaderStart
    /\ wp = WaveformStart(<<>>, "None")
    /\ ic = IdcodeRest
    /\ \E keyword \in BlockKeywords, n \in 0..MaxLen :
         \E body \in [1..n -> {36, 101, 110, 100, 120}],
            tail \in {<<>>, <<32>> \o EndKeyword} :
           tk = BlockStart(keyword, keyword \o body \o EndKeyword \o tail)

SpecBlock == InitBlock /\ [][BlockNextToken]_vars

\* ===================================================================
\* Claims
\* ===================================================================
IsChange(op) == op[1] \in {"update_vector", "update_real"}

IsTimestamp(op) == op[1] = "insert_timestamp"

\* The payload of the last timestamp among ops[1..j-1], 0 when there is none.
RECURSIVE LastTimestampBefore(_, _)
LastTimestampBefore(ops, j) ==
    IF j <= 1 THEN 0
    ELSE IF IsTimestamp(ops[j - 1]) THEN ops[j - 1][2]
    ELSE LastTimestampBefore(ops, j - 1)

\* The same in the source: the Timestamp token that most recently precedes
\* the body's token p (a token's payload is its place in the body).
RECURSIVE SourceTimestampBefore(_, _)
SourceTimestampBefore(body, p) ==
    IF p <= 1 THEN 0
    ELSE IF body[p - 1].kind = "ts" THEN body[p - 1].val
    ELSE SourceTimestampBefore(body, p - 1)

\* C1: in load_multi_threaded every Vector/Real change a shard has applied
\* was applied after the Timestamp that most recently precedes it in the
\* source, and after no later one: the last insert_timestamp the shard made
\* before the change is that Timestamp, in every interleaving.
C1_TimestampBeforeChange ==
    \A i \in Shards : \A j \in 1..Len(waveform_shard[i]) :
        LET op == waveform_shard[i][j] IN
        IsChange(op) =>
            LastTimestampBefore(waveform_shard[i], j)
                = SourceTimestampBefore(bytes.body, op[3])

\* Every shard has applied a timestamp and then a change.
C1_Witness ==
    \A i \in Shards :
        /\ Len(waveform_shard[i]) >= 2
        /\ IsTimestamp(waveform_shard[i][1])
        /\ IsChange(waveform_shard[i][2])

\* The entries of es that belong on shard i: every Timestamp, and the
\* changes whose idcode is i - 1 modulo the number of shards.
EntriesFor(es, i) ==
    LET Keep(e) == e.kind = "ts" \/ (e.id % waveform_threads) + 1 = i
    IN SelectSeq(es, Keep)

\* C2: the dispatcher hands every Timestamp it has received to each shard
\* exactly once and every Vector/Real to the shard idcode mod N alone: what
\* it has sent or queued for shard i is, in order, the timestamps and shard
\* i's changes among the entries it has received; once it has returned, all
\* of it has been sent on the shard's channel.
C2_DispatcherRouting ==
    d_pc \in {"recv", "finish", "done"} =>
        \A i \in Shards :
            /\ delivered[i] \o tx_dispatchers[i] = EntriesFor(d_seen, i)
            /\ d_pc = "done" => tx_dispatchers[i] = <<>>

\* The dispatcher has returned after a timestamp and changes for two shards.
C2_Witness ==
    /\ d_pc = "done"
    /\ \E k \in 1..Len(d_seen) : d_seen[k].kind = "ts"
    /\ \A i \in Shards : \E k \in 1..Len(d_seen) :
           d_seen[k].kind # "ts" /\ (d_seen[k].id % waveform_threads) + 1 = i

\* The storage calls of ops that belong on shard i.
OpsFor(ops, i) ==
    LET Keep(op) == IsTimestamp(op) \/ (op[2] % waveform_threads) + 1 = i
    IN SelectSeq(ops, Keep)

IsPrefix(a, b) == Len(a) <= Len(b) /\ a = SubSeq(b, 1, Len(a))

\* The source's changes of idcode c, as storage calls, in file order.
SourceChanges(body, c) ==
    LET Keep(t) == t.kind \in {"vec", "real"} /\ t.id = c
        kept == SelectSeq(body, Keep)
    IN [k \in 1..Len(kept) |-> StorageOp(kept[k])]

\* The changes of idcode c the shards have applied: c's shard holds them all.
AppliedChanges(c) ==
    LET Keep(op) == IsChange(op) /\ op[2] = c
    IN SelectSeq(waveform_shard[(c % waveform_threads) + 1], Keep)

Idcodes == { s.id : s \in { x \in TokenShapes : x.kind \in {"vec", "real"} } }

\* C4: for every idcode, the changes applied to the waveform are, in order,
\* the first changes of that idcode in the source file, and no other shard
\* holds a change of it, in every interleaving.
C4_IdcodeOrder ==
    \A c \in Idcodes :
        /\ IsPrefix(AppliedChanges(c), SourceChanges(bytes.body, c))
        /\ \A i \in Shards \ {(c % waveform_threads) + 1} :
              \A j \in 1..Len(waveform_shard[i]) :
                  IsChange(waveform_shard[i][j]) => waveform_shard[i][j][2] # c

\* Two changes of one idcode have been applied.
C4_Witness ==
    \E c \in Idcodes : Len(AppliedChanges(c)) >= 2

\* The body's only fault is one the parser worker reports.
ParserFaultOnly(input) ==
    /\ input.header = "ok" /\ ~input.lex_fail
    /\ \A k \in 1..Len(input.body) : ~input.body[k].bad
    /\ \E k \in 1..Len(input.body) : input.body[k].kind \in {"badtok", "tokerr"}

\* The body's only fault is an entry the storage rejects.
StorageFaultOnly(input) ==
    /\ input.header = "ok" /\ ~input.lex_fail
    /\ \A k \in 1..Len(input.body) : input.body[k].kind \notin {"badtok", "tokerr"}
    /\ \E k \in 1..Len(input.body) : input.body[k].bad

NoWorkerPanicked ==
    /\ p_pc # "panicked" /\ d_pc # "panicked"
    /\ \A i \in Shards : s_pc[i] # "panicked"

\* C5: when parse_waveform fails in the body, no thread panics (the parser
\* worker finishes its queue, the dispatcher and the shards drain and return,
\* the lexer loop survives the closed channel) and the handle yields
\* Err(VcdError::Parser(e)) with the parser worker's error e.
C5_ParserErrorPropagates ==
    (ParserFaultOnly(bytes) /\ p_result[1] = "Err") =>
        /\ m_pc # "panicked"
        /\ NoWorkerPanicked
        /\ m_pc = "done" => m_result = <<"Err", <<"Parser", p_result[2]>>>>

\* C6: when a storage call of a shard worker returns a WaveformError e, no
\* thread panics and the handle yields Err(VcdError::Waveform(e)).
C6_StorageErrorPropagates ==
    (StorageFaultOnly(bytes) /\ \E i \in Shards : s_result[i][1] = "Err") =>
        /\ m_pc # "panicked"
        /\ NoWorkerPanicked
        /\ m_pc = "done" =>
              /\ m_result[1] = "Err"
              /\ m_result[2][1] = "Waveform"
              /\ \E i \in Shards : s_result[i] = <<"Err", m_result[2][2]>>

AllWorkers ==
    {<<"parser", 0>>, <<"dispatcher", 0>>} \cup { <<"shard", i>> : i \in Shards }

AllTerminated ==
    /\ m_pc \in Terminated /\ p_pc \in Terminated /\ d_pc \in Terminated
    /\ \A i \in Shards : s_pc[i] \in Terminated

\* C7: on a well-formed input load_multi_threaded does not deadlock: under
\* fair scheduling the lexer loop, the parser worker, the dispatcher and
\* every shard worker terminate and the handle yields Ok.
C7_WellFormedTerminates ==
    WellFormed(bytes) =>
        <>(AllTerminated /\ m_pc = "done" /\ m_result[1] = "Ok")

\* A well-formed input of the longest body has been loaded.
C7_Witness ==
    /\ WellFormed(bytes) /\ Len(bytes.body) = MaxLen
    /\ AllTerminated /\ m_result[1] = "Ok"

\* C8: when the thread behind the handle has returned, with Ok or with an
\* Err, every worker it spawned has terminated and has been joined.
C8_WorkersJoined ==
    (m_pc = "done" /\ p_pc # "unborn") =>
        /\ p_pc \in Terminated /\ d_pc \in Terminated
        /\ \A i \in Shards : s_pc[i] \in Terminated
        /\ m_joined = AllWorkers

\* C9: when load_multi_threaded returns an error, the shared progress pair
\* is (total, total).
C9_ErrorCompletesProgress ==
    (m_pc = "done" /\ m_result[1] = "Err") =>
        status = <<file_size, file_size>>

\* done never decreases along the reported values and never exceeds total.
ProgressOrdered(reports) ==
    /\ \A k \in 1..Len(reports) : reports[k][1] <= reports[k][2]
    /\ \A k \in 1..(Len(reports) - 1) : reports[k][1] <= reports[k + 1][1]

EndsAtTotal(reports) ==
    reports # <<>> /\ reports[Len(reports)] = <<file_size, file_size>>

\* C10 as stated: in both loaders the reported done never decreases and
\* never exceeds total, and a load that completes has reported
\* (total, total) last.
C10_ProgressBothLoaders ==
    /\ ProgressOrdered(reported)
    /\ ProgressOrdered(st.reports)
    /\ m_result[1] = "Ok" =>
          EndsAtTotal(reported) /\ status = <<file_size, file_size>>
    /\ st.result[1] = "Ok" => EndsAtTotal(st.reports)

\* C10 as amended: in both loaders the reported done never decreases and
\* never exceeds total; a load_multi_threaded that completes has written
\* (total, total) last; the last report of a load_single_threaded that
\* completes is the start of a token, below total.
C10_ProgressAmended ==
    /\ ProgressOrdered(reported)
    /\ ProgressOrdered(st.reports)
    /\ m_result[1] = "Ok" =>
          EndsAtTotal(reported) /\ status = <<file_size, file_size>>
    /\ st.result[1] = "Ok" =>
          st.reports # <<>> /\ st.reports[Len(st.reports)][1] < file_size

\* Both loaders have completed a body of the longest length, the
\* multi-threaded one after more than two writes of the status.
C10_Witness ==
    /\ m_result[1] = "Ok" /\ st.result[1] = "Ok"
    /\ Len(bytes.body) = MaxLen
    /\ Len(reported) > 3 /\ Len(st.reports) > 1

\* What every turn of the loop does apart from the test itself: a report
\* sets last_index to index and passes (index, file_size) to the callback,
\* no report leaves last_index alone.
ProgressBookkeeping ==
    /\ pg.called =>
          /\ pg.last_index = pg.index
          /\ pg.reports[Len(pg.reports)] = <<pg.index, pg.file_size>>
    /\ ~pg.called => pg.last_index = pg.before

\* C11 as stated: after an entry load_single_threaded invokes the callback
\* exactly when (index - last_index) * 200 > file_size, and then sets
\* last_index to index; it does not report when the product is at most
\* file_size.
C11_ReportsWhenOver ==
    pg.entries > 0 =>
        /\ pg.called <=> pg.delta * ProgressSteps > pg.file_size
        /\ ProgressBookkeeping

\* C11 as amended: after an entry load_single_threaded invokes the callback
\* exactly when (index - last_index) * 200 >= file_size (the integer
\* quotient of the product by file_size is positive), and then sets
\* last_index to index; it does not report when the product is below
\* file_size.
C11_ReportsWhenReached ==
    pg.entries > 0 =>
        /\ pg.called <=> pg.delta * ProgressSteps >= pg.file_size
        /\ ProgressBookkeeping

\* The callback has been invoked on a product equal to file_size, after a
\* turn of the loop that did not report.
C11_Witness ==
    /\ pg.entries > 1
    /\ pg.called
    /\ pg.delta * ProgressSteps = pg.file_size
    /\ pg.before = 0

\* The channels of the pipeline and the pending batches of their senders.
AllChannels == {ch_lexer, ch_parser} \cup { ch_dispatcher[i] : i \in Shards }

AllPending == {tx_lexer, tx_parser} \cup { tx_dispatchers[i] : i \in Shards }

\* C12: in every reachable state of load_multi_threaded each channel holds
\* at most channel_limit batches, and every batch on a channel, like every
\* batch a sender is filling, holds at most queue_limit items.
C12_ChannelLimits ==
    /\ \A ch \in AllChannels :
          /\ Len(ch.buf) <= channel_limit
          /\ \A k \in 1..Len(ch.buf) : Len(ch.buf[k]) <= queue_limit
    /\ \A queue \in AllPending : Len(queue) <= queue_limit

\* The channel to the parser worker is full, with a batch of queue_limit
\* tokens on it, while the orchestrator has more to send.
C12_Witness ==
    /\ Len(ch_lexer.buf) = channel_limit
    /\ \E k \in 1..Len(ch_lexer.buf) : Len(ch_lexer.buf[k]) = queue_limit
    /\ m_pc \in {"lex", "finish_eof"}
    /\ tx_lexer # <<>>

\* The items of a sequence of batches, in order.
RECURSIVE Flatten(_)
Flatten(batches) ==
    IF batches = <<>> THEN <<>> ELSE Head(batches) \o Flatten(Tail(batches))

\* C13: for every sequence of send calls followed by finish, no empty batch
\* is placed on the channel before finish; finish places the pending batch
\* when it is not empty and then exactly one empty batch, and nothing is
\* placed after it: an empty batch among the batches placed is the last one
\* and the sender is done, and a sender that is done has placed, in order,
\* the values it was sent and one empty batch behind them.
C13_FinishSentinel ==
    LET n == Len(sq.placed) IN
    /\ \A k \in 1..n : sq.placed[k] = <<>> => (k = n /\ sq.tx_pc = "done")
    /\ sq.tx_pc = "send" => Flatten(sq.placed) \o sq.queue = sq.sent
    /\ sq.tx_pc = "finish" =>
          /\ n >= 1 /\ sq.placed[n] # <<>> /\ Len(sq.placed[n]) < queue_limit
          /\ Flatten(sq.placed) = sq.sent
    /\ sq.tx_pc = "done" =>
          /\ n >= 1 /\ sq.placed[n] = <<>>
          /\ Flatten(sq.placed) = sq.sent

\* The sender is done after a full batch, a partial batch and the empty one.
C13_Witness ==
    /\ sq.tx_pc = "done"
    /\ Len(sq.placed) >= 3
    /\ Len(sq.placed[1]) = queue_limit
    /\ sq.placed[Len(sq.placed) - 1] # <<>>
    /\ Len(sq.placed[Len(sq.placed) - 1]) < queue_limit

\* --------------------------------------------------------------- C14
\* The variables recorded in a scope forest.
RECURSIVE TreeVariables(_)
TreeVariables(scopes) ==
    UNION { { scopes[i].variables[j] : j \in DOMAIN scopes[i].variables }
            \cup TreeVariables(scopes[i].scopes) : i \in DOMAIN scopes }

\* C14: after any sequence of header tokens fed to parse_header, every
\* variable recorded in the header's scope tree has its idcode in the
\* header's idcode map, mapped to a width equal to the variable's width.
C14_TreeWidthsInMap ==
    \A v \in TreeVariables(hp.header.scopes) :
        /\ v.idcode \in DOMAIN hp.header.idcodes
        /\ hp.header.idcodes[v.idcode] = v.width

\* --------------------------------------------------------------- C15
\* The variables VcdVariable::new can make of the token pulled last.
LastMade == { v[2] : v \in { x \in VariableNew(hp.last) : x[1] = "Ok" } }

\* The token pulled last is a Var whose idcode the map already held.
KnownVar ==
    /\ hp.fed > 0
    /\ hp.last.kind = "Var"
    /\ hp.last.idcode \in DOMAIN hp.before[1].idcodes

\* The token pulled last went through its arm without a return.
LastAccepted ==
    /\ hp.result = <<"None">>
    /\ hp.accepted # <<>>
    /\ hp.accepted[Len(hp.accepted)] = hp.last

\* A successfully parsed header holds no two declarations of one idcode
\* with different widths.
DeclarationsAgree ==
    hp.result = <<"Ok">> =>
        \A v, w \in TreeVariables(hp.header.scopes) :
            v.idcode = w.idcode => v.width = w.width

\* C15 as stated: parse_header fails with UnmatchedIdcode at the Var's
\* position on a Var whose idcode is already in the map with a different
\* width, and accepts one whose idcode is in the map with the same width; a
\* header that parses successfully never holds two declarations of one
\* idcode with different widths.
C15_ConflictFails ==
    /\ KnownVar =>
         \A v \in LastMade :
            IF hp.before[1].idcodes[v.idcode] # v.width
            THEN hp.result = <<"Err", "UnmatchedIdcode", hp.last.pos>>
            ELSE LastAccepted
    /\ DeclarationsAgree

\* C15, amended: the same for a Var received while a scope is open; at
\* scope_depth 0 the check of the depth comes first.
C15_ConflictFailsInScope ==
    /\ KnownVar /\ hp.before[2] > 0 =>
         \A v \in LastMade :
            IF hp.before[1].idcodes[v.idcode] # v.width
            THEN hp.result = <<"Err", "UnmatchedIdcode", hp.last.pos>>
            ELSE /\ LastAccepted
                 /\ v \in TreeVariables(hp.header.scopes)
    /\ KnownVar /\ hp.before[2] = 0 =>
         hp.result = <<"Err", "UnexpectedVariable", hp.last.pos>>
    /\ DeclarationsAgree

\* A conflicting Var has been rejected inside a scope, a Var of a known
\* idcode and the same width accepted before it.
C15_Witness ==
    /\ KnownVar
    /\ hp.result = <<"Err", "UnmatchedIdcode", hp.last.pos>>
    /\ \E i \in DOMAIN hp.accepted, j \in DOMAIN hp.accepted :
          /\ i < j
          /\ hp.accepted[i].kind = "Var" /\ hp.accepted[j].kind = "Var"
          /\ hp.accepted[i].idcode = hp.accepted[j].idcode

\* --------------------------------------------------------------- C16
\* A reference that keeps the open scopes as a stack of paths; a path lists
\* the places of a scope and of its ancestors among their siblings.
RECURSIVE ChildrenAt(_, _)
ChildrenAt(forest, path) ==
    IF path = <<>> THEN forest
    ELSE ChildrenAt(forest[Head(path)].scopes, Tail(path))

RECURSIVE InsertScopeAt(_, _, _)
InsertScopeAt(forest, path, scope) ==
    IF path = <<>> THEN Append(forest, scope)
    ELSE [forest EXCEPT ![Head(path)].scopes =
                            InsertScopeAt(@, Tail(path), scope)]

RECURSIVE InsertVariableAt(_, _, _)
InsertVariableAt(forest, path, variable) ==
    IF Len(path) = 1
    THEN [forest EXCEPT ![Head(path)].variables = Append(@, variable)]
    ELSE [forest EXCEPT ![Head(path)].scopes =
                            InsertVariableAt(@, Tail(path), variable)]

ReferenceStep(ref, tok) ==
    LET inner == IF ref.open = <<>> THEN <<>> ELSE ref.open[Len(ref.open)]
    IN CASE tok.kind = "Scope" ->
              [forest |-> InsertScopeAt(ref.forest, inner, ScopeNew(tok)),
               open |-> Append(ref.open,
                          Append(inner, Len(ChildrenAt(ref.forest, inner)) + 1))]
         [] tok.kind = "Var" ->
              [ref EXCEPT !.forest =
                  InsertVariableAt(@, inner,
                      CHOOSE v \in { x[2] : x \in { y \in VariableNew(tok) :
                                                      y[1] = "Ok" } } : TRUE)]
         [] tok.kind = "UpScope" ->
              [ref EXCEPT !.open = SubSeq(@, 1, Len(@) - 1)]
         [] OTHER -> ref

RECURSIVE Reference(_, _)
Reference(tokens, n) ==
    IF n = 0 THEN [forest |-> <<>>, open |-> <<>>]
    ELSE ReferenceStep(Reference(tokens, n - 1), tokens[n])

\* C16: after any sequence of tokens parse_header accepts, the header's
\* scope forest is the one the reference builds from them: each Scope is the
\* last child of the innermost open scope (a last root when none is open)
\* and is opened, each Var is the last variable of the innermost open scope,
\* UpScope closes the innermost open scope.
C16_ForestIsReference ==
    LET ref == Reference(hp.accepted, Len(hp.accepted))
    IN /\ hp.header.scopes = ref.forest
       /\ hp.scope_depth = Len(ref.open)

\* A variable in a child of a second root, the first root closed.
C16_Witness ==
    /\ Len(hp.header.scopes) = 2
    /\ hp.header.scopes[2].scopes # <<>>
    /\ hp.header.scopes[2].scopes[1].variables # <<>>

\* --------------------------------------------------------------- C17
CountKind(tokens, kind) ==
    Cardinality({ i \in DOMAIN tokens : tokens[i].kind = kind })

\* C17: an UpScope that arrives at scope_depth 0 returns UnexpectedUpscope
\* with the token's position; scope_depth is never below 0 and is the number
\* of Scope tokens accepted less the number of UpScope tokens accepted.
C17_UpscopeAtRoot ==
    /\ hp.fed > 0 /\ hp.last.kind = "UpScope" /\ hp.before[2] = 0 =>
         hp.result = <<"Err", "UnexpectedUpscope", hp.last.pos>>
    /\ hp.scope_depth >= 0
    /\ hp.scope_depth =
         CountKind(hp.accepted, "Scope") - CountKind(hp.accepted, "UpScope")

\* An UpScope rejected after a scope has been opened and closed.
C17_Witness ==
    /\ hp.result = <<"Err", "UnexpectedUpscope", hp.last.pos>>
    /\ CountKind(hp.accepted, "UpScope") > 0

\* --------------------------------------------------------------- C18
\* C18: parse_header returns Ok only on an EndDefinitions received at
\* scope_depth 0; an EndDefinitions received at a greater depth returns
\* UnexpectedEndDefinitions with its position; a successfully parsed header
\* has as many $upscope as $scope.
C18_EndDefinitions ==
    /\ hp.result = <<"Ok">> =>
         /\ hp.last.kind = "EndDefinitions"
         /\ hp.before[2] = 0
         /\ CountKind(hp.accepted, "Scope") = CountKind(hp.accepted, "UpScope")
    /\ hp.fed > 0 /\ hp.last.kind = "EndDefinitions" /\ hp.before[2] > 0 =>
         hp.result = <<"Err", "UnexpectedEndDefinitions", hp.last.pos>>

\* A header with a scope has parsed.
C18_Witness ==
    /\ hp.result = <<"Ok">>
    /\ hp.header.scopes # <<>>

\* --------------------------------------------------------------- C19
\* C19: a Var that arrives at scope_depth 0 returns UnexpectedVariable with
\* the token's position and leaves the scope tree and the idcode map as
\* they were.
C19_VariableAtRoot ==
    hp.fed > 0 /\ hp.last.kind = "Var" /\ hp.before[2] = 0 =>
        /\ hp.result = <<"Err", "UnexpectedVariable", hp.last.pos>>
        /\ hp.header.scopes = hp.before[1].scopes
        /\ hp.header.idcodes = hp.before[1].idcodes

\* A Var rejected at depth 0 with a tree and a map that are not empty.
C19_Witness ==
    /\ hp.result = <<"Err", "UnexpectedVariable", hp.last.pos>>
    /\ hp.header.scopes # <<>>
    /\ DOMAIN hp.header.idcodes # {}

\* --------------------------------------------------------------- C20
\* The entries of a token sequence: its value tokens, in order.
EntriesOfTokens(tokens) ==
    LET values == SelectSeq(tokens, LAMBDA t : t.kind \in ValueKinds)
    IN [i \in 1..Len(values) |->
          <<"Ok", <<"Some",
             IF values[i].kind = "Timestamp"
             THEN <<"Timestamp", values[i].pos>>
             ELSE IF values[i].kind = "VectorValue"
             THEN <<"Vector", values[i].pos, values[i].pos>>
             ELSE <<"Real", values[i].pos, values[i].pos>> >> >>]

\* The stream holds value tokens and passed tokens only and ends cleanly.
BodyStream ==
    /\ wp.ending = "None"
    /\ \A i \in DOMAIN wp.stream : wp.stream[i].kind \in ValueKinds \cup PassedKinds

\* C20: for every token stream the successive results of parse_waveform are
\* the stream's Timestamp, VectorValue and RealValue tokens converted to
\* entries, in stream order, the Comment, DumpAll, DumpOff, DumpOn, DumpVars
\* and End tokens skipped, followed by None when the stream ends cleanly.
C20_EntriesInOrder ==
    LET pulled == SubSeq(wp.stream, 1, wp.at - 1)
        entries == EntriesOfTokens(pulled)
    IN /\ wp.at <= Len(wp.stream) + 1
       /\ IF WaveformCalling THEN wp.results = entries
          ELSE SubSeq(wp.results, 1, Len(wp.results) - 1) = entries
       /\ BodyStream /\ ~WaveformCalling =>
            wp.results = Append(EntriesOfTokens(wp.stream), <<"Ok", <<"None">>>>)
       /\ BodyStream => \A i \in DOMAIN wp.results : wp.results[i][1] = "Ok"

\* A clean stream with a passed token between two value tokens has been
\* read to its None.
C20_Witness ==
    /\ BodyStream
    /\ ~WaveformCalling
    /\ Len(wp.results) = 3
    /\ Len(wp.stream) = 3
    /\ wp.stream[2].kind = "End"

\* --------------------------------------------------------------- C21
\* The places of the declaration-class tokens of the stream.
DeclarationPlaces ==
    { i \in DOMAIN wp.stream : wp.stream[i].kind \in DeclarationKinds }

\* C21: parse_waveform fails with UnexpectedToken on every declaration-class
\* token met in the body (Date, Version, Timescale, Scope, Var, UpScope,
\* EndDefinitions), fails with the tokenizer's error when the token source
\* fails, and returns None only on a clean end of the stream.
C21_BodyErrors ==
    LET last == wp.results[Len(wp.results)]
        first == CHOOSE i \in DeclarationPlaces :
                    \A j \in DeclarationPlaces : i <= j
    IN /\ \A i \in DOMAIN wp.results :
            wp.results[i] = <<"Ok", <<"None">>>> =>
                /\ wp.at = Len(wp.stream) + 1
                /\ wp.ending = "None"
                /\ DeclarationPlaces = {}
       /\ ~WaveformCalling =>
            IF DeclarationPlaces # {}
            THEN /\ last = <<"Err", "UnexpectedToken", wp.stream[first]>>
                 /\ wp.at = first + 1
            ELSE IF wp.ending = "Err"
            THEN last = <<"Err", "Tokenizer", Len(wp.stream) + 1>>
            ELSE last = <<"Ok", <<"None">>>>

\* A declaration-class token has been rejected after an entry and a passed
\* token.
C21_Witness ==
    /\ ~WaveformCalling
    /\ Len(wp.results) = 2
    /\ wp.results[2][1] = "Err"
    /\ wp.results[2][2] = "UnexpectedToken"
    /\ wp.at = 4
    /\ wp.stream[2].kind \in PassedKinds

\* --------------------------------------------------------------- C22
\* C22: two distinct runs of printable bytes, of any lengths, get distinct
\* encoded integers from tokenize_idcode, and write_to applied to an encoded
\* integer and the byte store gives back the run.
C22_IdcodeInjective ==
    /\ Len(ic.ids) = 2 /\ ic.runs[1] # ic.runs[2] => ic.ids[1] # ic.ids[2]
    /\ ic.pc = "written" =>
         \A i \in DOMAIN ic.ids : ic.out[i] = ic.runs[i]

\* Two runs longer than a word that differ in one byte have been written
\* back.
C22_Witness ==
    /\ ic.pc = "written"
    /\ Len(ic.ids) = 2
    /\ Len(ic.runs[1]) = MaxRun /\ Len(ic.runs[2]) = MaxRun
    /\ ic.runs[1] # ic.runs[2]

\* --------------------------------------------------------------- C23
\* C23: an identifier code, of any length, tokenized in its $var and again
\* in a later value change gets the same encoded integer both times.
C23_SameRunSameIdcode ==
    Len(ic.ids) = 2 /\ ic.runs[1] = ic.runs[2] => ic.ids[1] = ic.ids[2]

\* --------------------------------------------------------------- C24
\* C24: from the return of parse_header to the end of the load the byte
\* store is not modified.
C24_BodyLeavesStore ==
    ic.pc # "header" => ic.bs = ic.header_bs

\* --------------------------------------------------------------- C25
\* C25: tokenizing a timestamp whose digits denote a value above the
\* greatest u64 returns an integer parse error, never Ok with a value.
C25_TimestampOverflowFails ==
    /\ tk.kind = "Timestamp"
    /\ tk.result # <<"None">>
    /\ Denoted(tk.span, Len(tk.span)) > U64Modulus - 1
    => tk.result = <<"Err", "IntegerParseError">>

\* --------------------------------------------------------------- C26
\* The body is well formed and carries a bracket suffix.
Bracketed ==
    /\ tk.kind = "Var"
    /\ tk.span.net \in KnownNets
    /\ tk.span.width[1] = "Ok"
    /\ tk.span.suffix[1] # "Unspecified"
    /\ \A i \in 2..Len(tk.span.suffix) : tk.span.suffix[i][1] = "Ok"

\* The width a bracket suffix denotes.
SuffixWidth ==
    IF tk.span.suffix[1] = "Vector" THEN tk.span.suffix[2][2]
    ELSE tk.span.suffix[2][2] - tk.span.suffix[3][2] + 1

\* C26: on a $var whose reference carries [n] or [msb:lsb], with any msb
\* and lsb, tokenize_variable returns Ok only when the suffix's width is the
\* declared width and IncorrectVariableWidth(declared, actual) otherwise.
C26_SuffixWidthChecked ==
    Bracketed /\ tk.result # <<"None">> =>
        /\ tk.result[1] = "Ok" => SuffixWidth = tk.span.width[2]
        /\ SuffixWidth # tk.span.width[2] =>
             /\ tk.result[1] = "Err"
             /\ tk.result[2] = "IncorrectVariableWidth"
             /\ tk.result[3] = tk.span.width[2]

\* --------------------------------------------------------------- C27
\* A variable was recorded.
Recorded == tk.kind = "Var" /\ tk.variable[1] = "Ok"

\* What is recorded of a real is a real of width 64, and of another net a
\* vector.
RealsRecorded ==
    Recorded =>
        /\ tk.variable[2].width = <<"Real">> =>
             /\ tk.variable[2].net_type \in {"real", "realtime"}
             /\ tk.span.width = <<"Ok", 64>>
        /\ tk.variable[2].net_type \notin {"real", "realtime"} =>
             tk.variable[2].width[1] = "Vector"

\* A real or realtime declaration of a width other than 64 was tokenized.
RealNot64 ==
    /\ tk.kind = "Var"
    /\ tk.span.net \in {"real", "realtime"}
    /\ tk.span.width[1] = "Ok"
    /\ tk.span.width[2] # 64
    /\ tk.result # <<"None">>

RECURSIVE Unspaced(_)
Unspaced(span) ==
    IF span = <<>> THEN <<>>
    ELSE IF Head(span) \in Spaces THEN Unspaced(Tail(span))
    ELSE <<Head(span)>> \o Unspaced(Tail(span))

\* The e with offset * unit = 10^(-e) seconds.
Exponent(offset, unit) ==
    LET base == CASE unit = <<102, 115>> -> 15
                  [] unit = <<112, 115>> -> 12
                  [] unit = <<110, 115>> -> 9
                  [] unit = <<117, 115>> -> 6
                  [] unit = <<109, 115>> -> 3
                  [] unit = <<115>> -> 0
    IN base - (Len(offset) - 1)

\* C28: for every offset in {1, 10, 100} and every unit in {fs, ps, ns, us,
\* ms, s}, written with or without whitespace between them,
\* tokenize_timescale followed by convert_timescale records the exponent e
\* with offset * unit = 10^(-e) seconds.
C28_TimescaleExponent ==
    tk.kind = "Timescale" /\ tk.timescale # <<"None">> =>
        \A offset \in TimescaleOffsets, unit \in TimescaleUnits :
            Unspaced(tk.span) = offset \o unit =>
                tk.timescale = <<"Some", Exponent(offset, unit)>>

\* --------------------------------------------------------------- C29
\* C29: a token written with Token::write_to and lexed and tokenized again
\* comes back as a token of the same variant with equal payloads; a Var
\* with a Vector or VectorSelect description comes back with the same name
\* and the same description.
C29_WriteRoundTrip ==
    tk.kind = "Round" /\ tk.again # <<"None">> => tk.again = tk.result

\* --------------------------------------------------------------- C30
\* The names met on the way to a record: of the scopes at `places` one
\* inside the other, and last of the variable when `call` is get_variable.
RECURSIVE NamesTo(_, _, _)
NamesTo(scopes, places, call) ==
    IF places = <<>> THEN <<>>
    ELSE <<scopes[Head(places)].name>>
         \o (IF call = "get_variable" /\ Len(places) = 2
             THEN <<scopes[Head(places)].variables[places[2]].name>>
             ELSE NamesTo(scopes[Head(places)].scopes, Tail(places), call))

\* C30: whenever get_scope(path) or get_variable(path) returns a record,
\* the record's name is the last '.'-separated segment of path byte for
\* byte and the names of its enclosing scopes, from a root downward, are the
\* preceding segments in order; get_variable returns no record for a path
\* of fewer than two segments.
C30_HitMatchesPath ==
    /\ hp.found[1] = "Some" =>
         NamesTo(hp.header.scopes, hp.found[2], hp.call)
             = SplitDots(hp.path, <<>>)
    /\ hp.call = "get_variable" /\ Len(SplitDots(hp.path, <<>>)) < 2 =>
         hp.found = <<"None">>

\* get_variable found a variable two scopes deep.
C30_Witness ==
    /\ hp.found[1] = "Some"
    /\ hp.call = "get_variable"
    /\ Len(hp.found[2]) = 3

\* --------------------------------------------------------------- C31
\* No worker thread has been spawned and no shard holds an operation.
NothingSpawned ==
    /\ p_pc = "unborn"
    /\ d_pc = "unborn"
    /\ \A i \in Shards : s_pc[i] = "unborn" /\ waveform_shard[i] = <<>>

\* C31: in both loaders no waveform operation is performed before
\* parse_header has returned Ok; when parse_header fails, the load returns
\* the error with no waveform operation performed and, in
\* load_multi_threaded, with no worker thread spawned.
C31_HeaderBeforeWaveform ==
    /\ st.pc = "start" => st.waveform = <<>>
    /\ m_pc \in {"start", "header"} => NothingSpawned
    /\ ParseHeader(bytes)[1] = "Err" =>
         /\ st.waveform = <<>>
         /\ NothingSpawned
         /\ st.pc = "done" => st.result = <<"Err", ParseHeader(bytes)[2]>>
         /\ m_pc # "done" => m_pc \in {"start", "header"}
         /\ m_pc = "done" => m_result = <<"Err", ParseHeader(bytes)[2]>>

\* Both loaders have returned the error of a header that fails.
C31_Witness ==
    /\ ParseHeader(bytes)[1] = "Err"
    /\ st.pc = "done"
    /\ m_pc = "done"

\* --------------------------------------------------------------- C32
\* The first chain of nested scopes, in insertion order, whose names are
\* `sections` in order: the places that lead to its last scope, searched
\* among `scopes` from place i on.
RECURSIVE FirstChain(_, _, _)
FirstChain(scopes, sections, i) ==
    IF i > Len(scopes) THEN <<"None">>
    ELSE IF scopes[i].name # sections[1]
    THEN FirstChain(scopes, sections, i + 1)
    ELSE IF Len(sections) = 1 THEN <<"Some", <<i>>>>
    ELSE LET inside == FirstChain(scopes[i].scopes, Tail(sections), 1)
         IN IF inside[1] = "Some" THEN <<"Some", <<i>> \o inside[2]>>
            ELSE FirstChain(scopes, sections, i + 1)

\* C32: for every scope forest, forests where sibling scopes share a name
\* included, get_scope(path) returns a scope whenever some chain of nested
\* scopes from a root has the path's segments as its names, the first such
\* scope in insertion order, and none only when there is no such chain.
C32_FirstChainFound ==
    hp.call = "get_scope" =>
        hp.found = FirstChain(hp.header.scopes, SplitDots(hp.path, <<>>), 1)

\* --------------------------------------------------------------- C33
\* The bytes of a run, packed the first byte lowest, take no more than the
\* word less its top bit.
FitsBelowTopBit(run) ==
    \/ Len(run) < usize_bytes
    \/ Len(run) = usize_bytes /\ run[usize_bytes] < 128

\* C33: tokenize_idcode stores an identifier inline, the top bit clear and
\* the bytes packed the first lowest, exactly when its bytes fit in the
\* word less its top bit, and spills it to the byte store with the top bit
\* set exactly when they do not.
C33_InlineWhenItFits ==
    \A i \in DOMAIN ic.ids :
        IF FitsBelowTopBit(ic.runs[i])
        THEN ~TopBit(ic.ids[i]) /\ ic.ids[i] = Pack(ic.runs[i], 1)
        ELSE TopBit(ic.ids[i])

\* --------------------------------------------------------------- C34
\* The digits of a span: what follows its spaces.
RECURSIVE DigitsOf(_)
DigitsOf(span) ==
    IF span # <<>> /\ Head(span) = 32 THEN DigitsOf(Tail(span)) ELSE span

\* C34: for every span the lexer classifies as a timestamp ('#', then zero
\* or more spaces, then digits), the Timestamp token's value is the base-10
\* value of the digits (here for the values a u64 holds).
C34_TimestampValue ==
    /\ tk.kind = "Timestamp"
    /\ tk.result # <<"None">>
    /\ Denoted(DigitsOf(tk.span), Len(DigitsOf(tk.span))) < U64Modulus
    => tk.result = <<"Ok", Denoted(DigitsOf(tk.span), Len(DigitsOf(tk.span)))>>

\* --------------------------------------------------------------- C35
\* The bytes of the input ahead of piece k.
RECURSIVE BytesBefore(_, _)
BytesBefore(pieces, k) ==
    IF k = 1 THEN <<>>
    ELSE BytesBefore(pieces, k - 1) \o pieces[k - 1].slice

\* The line breaks among some bytes.
LineBreaks(text) == Cardinality({ i \in DOMAIN text : text[i] = 10 })

\* The bytes that follow the last line break.
RECURSIVE SinceLineBreak(_)
SinceLineBreak(text) ==
    IF text = <<>> \/ text[Len(text)] = 10 THEN 0
    ELSE 1 + SinceLineBreak(SubSeq(text, 1, Len(text) - 1))

\* C35: for every input the lexer accepts, the position attached to each
\* lexical span has byte_index equal to the offset of the span's first byte
\* and line and column equal to the 1-based line and column of that byte,
\* a line break being each '\n' that precedes it, those inside earlier
\* multi-line blocks included.
C35_PositionsRight ==
    tk.kind = "Lexer" =>
        \A i \in DOMAIN tk.out :
            LET before == BytesBefore(tk.span, tk.out[i][2])
                pos == tk.out[i][3]
            IN /\ pos.index = Len(before)
               /\ pos.line = 1 + LineBreaks(before)
               /\ pos.column = 1 + SinceLineBreak(before)

\* A span was returned that follows a block of several lines and does not
\* start its line.
C35_Witness ==
    /\ tk.kind = "Lexer"
    /\ \E i \in DOMAIN tk.out :
         /\ tk.out[i][2] > 1
         /\ tk.span[tk.out[i][2] - 1] =
                [kind |-> "section", slice |-> <<120, 10, 10, 120>>]
         /\ tk.out[i][3].line = 3
         /\ tk.out[i][3].column = 2

\* --------------------------------------------------------------- C36
\* The place of the first "$end" of a text from byte at on, 0 without one.
RECURSIVE FirstEnd(_, _)
FirstEnd(text, at) ==
    IF at + Len(EndKeyword) - 1 > Len(text) THEN 0
    ELSE IF SubSeq(text, at, at + Len(EndKeyword) - 1) = EndKeyword THEN at
    ELSE FirstEnd(text, at + 1)

\* C36: the lexer accepts every $comment, $date or $version block whose
\* body has '$' characters that do not start "$end", whatever character
\* follows the '$' ('e' included), and the span it returns is everything
\* strictly between the keyword and the first "$end" that follows.
C36_BlockAccepted ==
    (tk.kind = "Block" /\ tk.result # <<"None">>) =>
        tk.result =
            <<"Ok", SubSeq(tk.span, Len(tk.keyword) + 1,
                           FirstEnd(tk.span, Len(tk.keyword) + 1) - 1)>>

\* --------------------------------------------------------------- C37
\* A step that changes shard i is a step of worker i: the worker is
\* running, it takes from its own receiver or channel, and the main thread,
\* the parser worker, the dispatcher and the other shards stand still.
OwnWorkerStep(i) ==
    /\ s_pc[i] = "run"
    /\ <<rx_dispatcher[i], ch_dispatcher[i]>>
           # <<rx_dispatcher'[i], ch_dispatcher'[i]>>
    /\ UNCHANGED <<main_vars, parser_vars, disp_vars>>
    /\ \A j \in Shards \ {i} :
           /\ waveform_shard'[j] = waveform_shard[j]
           /\ s_pc'[j] = s_pc[j]

\* Waveform::unshard was called on the shards every worker returned.
UnshardedAll ==
    /\ Len(m_shards) = waveform_threads
    /\ m_result[3] = Unshard(m_shards)
    /\ \A i \in Shards :
           /\ s_pc[i] = "done"
           /\ s_result[i] = <<"Ok", m_shards[i]>>
           /\ m_shards[i] = waveform_shard[i]

\* C37: in load_multi_threaded each shard is accessed only by its own shard
\* worker from the moment the worker is spawned, and Waveform::unshard is
\* called only after every one of the N shard workers has returned its
\* shard, with all N shards.
C37_ShardsOwnedThenUnsharded ==
    /\ [](m_result[1] = "Ok" => UnshardedAll)
    /\ [][\A i \in Shards :
            waveform_shard'[i] # waveform_shard[i] => OwnWorkerStep(i)]_vars

\* The load returned a waveform put together from shards that each took
\* entries.
C37_Witness ==
    /\ m_result[1] = "Ok"
    /\ \A i \in Shards : m_result[3][i] # <<>>

\* --------------------------------------------------------------- C38
\* C38: for every SenderQueued/ReceiverQueued pair and every interleaving
\* of producer and consumer, the values recv returns before its first None
\* are, in order and with the same multiplicity, exactly the values passed
\* to send before finish, and once recv has returned None every later recv
\* returns None without reading the channel: what recv has returned so far
\* is the start of what was sent, the first None comes when it is all of
\* it and finish has placed its last batch, and the calls after it return
\* None and find the channel as the None left it, no recv failing.
C38_QueuedDelivery ==
    /\ Len(sq.got) <= Len(sq.sent)
    /\ sq.got = SubSeq(sq.sent, 1, Len(sq.got))
    /\ sq.rx_pc # "failed"
    /\ sq.rx_pc = "done" =>
          /\ sq.tx_pc = "done"
          /\ sq.got = sq.sent
          /\ sq.ch.buf = <<>>
          /\ \A k \in DOMAIN sq.after : sq.after[k] = "None"

\* As many values as the producer may send, one of them twice, went through
\* a full batch and a partial one, and recv was called again after its
\* first None.
C38_Witness ==
    /\ sq.rx_pc = "done"
    /\ Len(sq.got) = MaxLen
    /\ sq.got[1] = sq.got[MaxLen]
    /\ Len(sq.placed) >= 3
    /\ Len(sq.after) >= 2

\* --------------------------------------------------------------- C39
\* The scopes met from the last root down, taking the last child each time.
RECURSIVE LastChain(_)
LastChain(scopes) ==
    IF scopes = <<>> THEN 0
    ELSE 1 + LastChain(scopes[Len(scopes)].scopes)

\* C39: in every state reachable through parse_header the chain obtained by
\* repeatedly taking the last child, starting from the last root scope, has
\* at least scope_depth scopes, so the last_mut().unwrap() calls that walk
\* to the innermost open scope for a Scope or Var token never fail: a turn
\* that panicked was a Var met at a depth above 0 on a forest that has the
\* chain, where the walk passes and the panic is that of VcdVariable::new.
C39_OpenChain ==
    /\ LastChain(hp.header.scopes) >= hp.scope_depth
    /\ hp.result = <<"Panic">> =>
          /\ hp.last.kind = "Var"
          /\ hp.before[2] > 0
          /\ LastChain(hp.before[1].scopes) >= hp.before[2]

\* A Var was recorded two scopes deep under the second root, after the
\* first root was closed.
C39_Witness ==
    /\ hp.result = <<"None">>
    /\ hp.scope_depth = 2
    /\ Len(hp.header.scopes) = 2
    /\ hp.last.kind = "Var"
    /\ Len(hp.accepted) = hp.fed

====
